---- MODULE Spec2Model ----
(***************************************************************************)
(* fileshare-cli: the configuration store (utils/config.js), the SFTP      *)
(* transfer client (api/sftp.js) and the commands (commands/upload.js,     *)
(* delete.js, setup.js, password.js, about.js).                            *)
(*                                                                         *)
(* Text is a sequence of tokens.  A token is one character (" ", "=", "#", *)
(* NL, "a", "b") or one whole word that holds no character the parsers     *)
(* treat specially (a key name such as "SERVER_HOST", a default such as    *)
(* "id_ed25519").                                                          *)
(***************************************************************************)
EXTENDS Integers, Sequences, FiniteSets, TLC

VARIABLES
    env,        \* process.env restricted to the recognized keys (a partial map)
    file,       \* ~/.fileshare/.env : [exists, content]
    shellEnv,   \* the environment the shell hands to every new process
    loaded,     \* loadConfig() has run in this process
    run,        \* number of the current process
    saves,      \* saveConfig calls made so far (bounded)
    stops,      \* processes stopped inside saveConfig so far (bounded)
    last,       \* the last configuration call and the state it started from
    saved,      \* per key, the last value a completed saveConfig stored, and its run
    wr,         \* the file before and after the last writeFileSync that was started
    keyFiles,   \* the names of the key files present in ~/.ssh
    remote,     \* the configured remote directory: [exists, entries]
    sessions,   \* SFTP sessions open now
    cmd,        \* the command the process runs ("none": a caller of api/sftp.js)
    cmdPc,      \* the command's position
    exited,     \* the process has ended
    exitCode,   \* its exit status
    op,         \* the transfer-client operation in progress
    opPc,       \* its position
    opArg,      \* its argument (a local item or a remote name)
    opErr,      \* the error it has raised
    opRet,      \* the value it has returned
    batch,      \* deleteMultipleFiles: [active, names, results]
    connects,   \* connection attempts made by the process
    callLog,    \* the deleteFile calls that have finished: [name, ok, removed]
    atStart,    \* the remote directory and the configuration when the command began
    cancelled,  \* the step at which the upload command was cancelled
    item,       \* the item selectFileOrFolder returned
    opCall,     \* the arguments of the upload call: [localPath, remoteName]
    sshConfig,  \* the sshConfig object createClient built last
    steps,      \* what the process has done so far: [step, ok] in order
    thrown,     \* the errors raised into command code: [err, handler]
    reports,    \* the errors shown to the user: [err, detail]
    remoteAtThrow, \* the remote directory right after the step that raised
    raised,     \* the errors the awaited calls of api/sftp.js have raised, in order
    files,      \* deleteCommand: the listing listFiles() returned
    selectedFiles, \* deleteCommand: the names selectMultipleFiles returned
    action,     \* setupCommand: the action selectAction returned
    lastInput,  \* setupCommand: the last text typed and the validator's verdict
    progress,   \* uploadCommand: bytes sent, lastProgress and what the bar last showed
    procs       \* two delete commands running at once: the state of each process

cfgVars == <<env, file, shellEnv, loaded, run, saves, stops, last, saved, wr>>

\* what only the prompts, the progress display and concurrent processes change
uiVars == <<files, selectedFiles, action, lastInput, progress, procs>>

sftpVars == <<keyFiles, remote, sessions, cmd, cmdPc, exited, exitCode, op, opPc,
              opArg, opErr, opRet, batch, connects, callLog, atStart, cancelled, item,
              opCall, sshConfig, steps, thrown, reports, remoteAtThrow, raised,
              uiVars>>

vars == <<cfgVars, sftpVars>>

----------------------------------------------------------------------------
(* Bounds *)

MaxSaves == 2
MaxRuns == 2
MaxStops == 1
MaxBatch == 3

----------------------------------------------------------------------------
(* Text helpers: String.prototype.trim / split / join on token sequences *)

NL == "\n"

IsSpace(t) == t = " " \/ t = NL

RECURSIVE TrimLeft(_)
TrimLeft(s) ==
    IF s # <<>> /\ IsSpace(Head(s)) THEN TrimLeft(Tail(s)) ELSE s

RECURSIVE TrimRight(_)
TrimRight(s) ==
    IF s # <<>> /\ IsSpace(s[Len(s)]) THEN TrimRight(SubSeq(s, 1, Len(s) - 1)) ELSE s

Trim(s) == TrimRight(TrimLeft(s))

\* s.split(sep): always at least one part
RECURSIVE SplitAcc(_, _, _, _)
SplitAcc(s, sep, cur, acc) ==
    IF s = <<>> THEN Append(acc, cur)
    ELSE IF Head(s) = sep THEN SplitAcc(Tail(s), sep, <<>>, Append(acc, cur))
    ELSE SplitAcc(Tail(s), sep, Append(cur, Head(s)), acc)

Split(s, sep) == SplitAcc(s, sep, <<>>, <<>>)

\* parts.join(sep)
RECURSIVE Join(_, _)
Join(parts, sep) ==
    IF parts = <<>> THEN <<>>
    ELSE IF Len(parts) = 1 THEN parts[1]
    ELSE parts[1] \o <<sep>> \o Join(Tail(parts), sep)

----------------------------------------------------------------------------
(* Configuration store *)

Keys == {"SSH_KEY_NAME", "SERVER_USER", "SERVER_HOST", "SERVER_DIRECTORY", "SERVER_PORT"}

DEFAULTS ==
    [k \in Keys |->
        CASE k = "SSH_KEY_NAME"     -> <<"id_ed25519">>
          [] k = "SERVER_USER"      -> <<"root">>
          [] k = "SERVER_HOST"      -> <<"your-server-host.com">>
          [] k = "SERVER_DIRECTORY" -> <<"/root/fileshare">>
          [] k = "SERVER_PORT"      -> <<"2", "2">>]

\* the keys handed to saveConfig (saveConfig treats every key alike)
SaveKeys == {"SERVER_HOST", "SERVER_DIRECTORY", "SERVER_PORT"}

\* the values handed to saveConfig: empty, plain, and one with a leading
\* blank, an '=' and a '#'
Values ==
    { <<>>, <<"a">>, <<" ", "a", "=", "b", "#", "c">> }

\* environments a shell can hand to the process: none of the keys set, or
\* one key set to a value and another set to the empty string
InheritedEnvs ==
    { <<>>,
      [k \in {"SERVER_PORT", "SERVER_HOST"} |->
          IF k = "SERVER_PORT" THEN <<"2", "2", "2", "2">> ELSE <<>>] }

\* where a stopped write leaves the file: empty (opened with truncation,
\* nothing written), after the first token, or short of the final line end
CutKinds == {"truncated", "firstToken", "lastLineOpen"}

CutAt(new, cut) ==
    CASE cut = "truncated"    -> 0
      [] cut = "firstToken"   -> 1
      [] cut = "lastLineOpen" -> Len(new) - 1

NoFile == [exists |-> FALSE, content |-> <<>>]

MapPut(m, k, v) == [x \in (DOMAIN m) \cup {k} |-> IF x = k THEN v ELSE m[x]]

\* process.env[key] || DEFAULTS[key], on a given environment
GetFrom(e, key) ==
    IF key \in DOMAIN e /\ e[key] # <<>> THEN e[key] ELSE DEFAULTS[key]

getConfigNoFallback(key) ==
    IF key \in DOMAIN env THEN env[key] ELSE <<>>

getConfig(key) == GetFrom(env, key)

(* saveConfig's own parser: lines.forEach(...) building `updated`, an object *)
(* whose entries keep insertion order: a sequence of <<key, value>> pairs.   *)

RECURSIVE PairsPut(_, _, _)
PairsPut(pairs, k, v) ==
    IF pairs = <<>> THEN << <<k, v>> >>
    ELSE IF Head(pairs)[1] = k THEN << <<k, v>> >> \o Tail(pairs)
    ELSE << Head(pairs) >> \o PairsPut(Tail(pairs), k, v)

ParseLineInto(updated, line) ==
    LET trimmedLine == Trim(line) IN
    IF trimmedLine # <<>> /\ Head(trimmedLine) # "#"
    THEN LET parts == Split(trimmedLine, "=")
             k     == parts[1]
             rest  == Tail(parts)
         IN IF k # <<>>
            THEN PairsPut(updated, Trim(k), Trim(Join(rest, "=")))
            ELSE updated
    ELSE updated

RECURSIVE ParseLines(_, _)
ParseLines(lines, updated) ==
    IF lines = <<>> THEN updated
    ELSE ParseLines(Tail(lines), ParseLineInto(updated, Head(lines)))

\* Object.entries(updated).map(([k, v]) => `${k}=${v}`).join('\n') + '\n'
RECURSIVE RenderLines(_)
RenderLines(pairs) ==
    IF pairs = <<>> THEN <<>>
    ELSE << Head(pairs)[1] \o <<"=">> \o Head(pairs)[2] >> \o RenderLines(Tail(pairs))

Render(pairs) == Join(RenderLines(pairs), NL) \o <<NL>>

ExistingPairsDropped(f) == <<>>

\* the `updated` object after "Read existing config" and "Parse existing lines"
ExistingPairs(f) ==
    ParseLines(Split(IF f.exists THEN f.content ELSE <<>>, NL), <<>>)

NewContent(f, key, value) == Render(PairsPut(ExistingPairs(f), <<key>>, value))

\* dotenv's parse of the file, per line: optional blanks, a key of word
\* characters, optional blanks, '=', the value up to the first '#' or the end
\* of the line, an optional '#' comment; the value is trimmed and a later line
\* of the same key wins.  (No quote, backslash, colon or `export` occurs in the
\* alphabet, so those branches of dotenv's pattern are never taken.)

WordTokens == Keys \cup {"a", "b", "c"}

RECURSIVE TakeWord(_)
TakeWord(s) ==
    IF s # <<>> /\ Head(s) \in WordTokens THEN <<Head(s)>> \o TakeWord(Tail(s)) ELSE <<>>

RECURSIVE TakeUntilHash(_)
TakeUntilHash(s) ==
    IF s # <<>> /\ Head(s) # "#" THEN <<Head(s)>> \o TakeUntilHash(Tail(s)) ELSE <<>>

\* <<matched, key, value>> for one line
DotenvLine(line) ==
    LET body  == TrimLeft(line)
        key   == TakeWord(body)
        after == TrimLeft(SubSeq(body, Len(key) + 1, Len(body)))
    IN IF key # <<>> /\ after # <<>> /\ Head(after) = "="
       THEN <<TRUE, key, Trim(TakeUntilHash(Tail(after)))>>
       ELSE <<FALSE, <<>>, <<>> >>

RECURSIVE DotenvLines(_, _)
DotenvLines(lines, obj) ==
    IF lines = <<>> THEN obj
    ELSE LET m == DotenvLine(Head(lines)) IN
         DotenvLines(Tail(lines),
                     IF m[1] /\ Len(m[2]) = 1 /\ m[2][1] \in Keys
                     THEN MapPut(obj, m[2][1], m[3])
                     ELSE obj)

DotenvParse(content) == DotenvLines(Split(content, NL), <<>>)

\* dotenv's populate without override: a key process.env already has is kept
Populate(e, parsed) ==
    [k \in (DOMAIN e) \cup (DOMAIN parsed) |-> IF k \in DOMAIN e THEN e[k] ELSE parsed[k]]

SeedDefaultsAlways(e) == DEFAULTS

\* the else branch of loadConfig: defaults for the keys that are unset or empty
SeedDefaults(e) ==
    [k \in Keys |-> IF k \in DOMAIN e /\ e[k] # <<>> THEN e[k] ELSE DEFAULTS[k]]

\* what a reader of the settings file finds in it
FileKeys(f) == IF f.exists THEN DotenvParse(f.content) ELSE <<>>

CfgInit ==
    /\ shellEnv \in InheritedEnvs
    /\ env = shellEnv
    /\ file = NoFile
    /\ loaded = FALSE
    /\ run = 1
    /\ saves = 0
    /\ stops = 0
    /\ last = [op |-> "none", key |-> "", val |-> <<>>, envB |-> <<>>,
               fileB |-> NoFile, loadedB |-> FALSE]
    /\ saved = <<>>
    /\ wr = [before |-> NoFile, after |-> NoFile]

loadConfig ==
    /\ env' = IF file.exists THEN Populate(env, DotenvParse(file.content))
              ELSE SeedDefaults(env)
    /\ loaded' = TRUE
    /\ last' = [op |-> "load", key |-> "", val |-> <<>>, envB |-> env,
                fileB |-> file, loadedB |-> loaded]
    /\ UNCHANGED <<file, shellEnv, run, saves, stops, saved, wr>>
    /\ UNCHANGED sftpVars

saveConfigNoEnv(key, value) ==
    /\ saves < MaxSaves
    /\ saves' = saves + 1
    /\ file' = [exists |-> TRUE, content |-> NewContent(file, key, value)]
    /\ env' = env
    /\ last' = [op |-> "save", key |-> key, val |-> value, envB |-> env,
                fileB |-> file, loadedB |-> loaded]
    /\ saved' = MapPut(saved, key, [val |-> value, run |-> run])
    /\ wr' = [before |-> file, after |-> file']
    /\ UNCHANGED <<shellEnv, loaded, run, stops>>
    /\ UNCHANGED sftpVars

\* what a completed saveConfig(key, value) does to the store
saveConfigDone(key, value) ==
    /\ saves < MaxSaves
    /\ saves' = saves + 1
    /\ file' = [exists |-> TRUE, content |-> NewContent(file, key, value)]
    /\ env' = MapPut(env, key, value)
    /\ last' = [op |-> "save", key |-> key, val |-> value, envB |-> env,
                fileB |-> file, loadedB |-> loaded]
    /\ saved' = MapPut(saved, key, [val |-> value, run |-> run])
    /\ wr' = [before |-> file, after |-> file']
    /\ UNCHANGED <<shellEnv, loaded, run, stops>>

saveConfig(key, value) ==
    /\ saveConfigDone(key, value)
    /\ UNCHANGED sftpVars

\* the process stops inside fs.writeFileSync: the file was opened with
\* truncation and only a prefix of the new content reached it; the tool is
\* then started again
saveConfigInterrupted(key, value, cut) ==
    /\ saves < MaxSaves
    /\ run < MaxRuns
    /\ stops < MaxStops
    /\ saves' = saves + 1
    /\ stops' = stops + 1
    /\ LET new == NewContent(file, key, value) IN
        /\ file' = [exists |-> TRUE, content |-> SubSeq(new, 1, CutAt(new, cut))]
        /\ wr' = [before |-> file, after |-> [exists |-> TRUE, content |-> new]]
    /\ env' = shellEnv
    /\ loaded' = FALSE
    /\ run' = run + 1
    /\ last' = [op |-> "stopped", key |-> key, val |-> value, envB |-> env,
                fileB |-> file, loadedB |-> loaded]
    /\ UNCHANGED <<shellEnv, saved>>
    /\ UNCHANGED sftpVars

\* the process ends and the tool is started again
NewRun ==
    /\ run < MaxRuns
    /\ run' = run + 1
    /\ env' = shellEnv
    /\ loaded' = FALSE
    /\ last' = [op |-> "start", key |-> "", val |-> <<>>, envB |-> env,
                fileB |-> file, loadedB |-> loaded]
    /\ UNCHANGED <<file, shellEnv, saves, stops, saved, wr>>
    /\ UNCHANGED sftpVars

CfgNext ==
    \/ loadConfig
    \/ \E k \in SaveKeys, v \in Values : saveConfig(k, v)
    \/ \E k \in SaveKeys, v \in Values, c \in CutKinds : saveConfigInterrupted(k, v, c)
    \/ NewRun
----------------------------------------------------------------------------
(* Remote host and local directory *)

Names == {"a.txt", "b.txt", "docs"}

\* the order in which sftp.list and the prompts present the names
NameOrder == <<"a.txt", "b.txt", "docs", "r">>

\* the files inside the local folder "docs"
FolderFiles == {"x", "y"}

\* the visible items of the current directory; path is path.join(cwd, name)
LocalItems ==
    { [name |-> "a.txt", path |-> <<"/", "work", "/", "a.txt">>, isDirectory |-> FALSE],
      [name |-> "docs", path |-> <<"/", "work", "/", "docs">>, isDirectory |-> TRUE] }

NoItem == [name |-> "", path |-> <<>>, isDirectory |-> FALSE]

\* local paths handed to uploadFile and uploadFolder: a sequence of "/" and
\* of path components
FilePaths == { <<"a.txt">>, <<"/", "work", "/", "a.txt">> }

FolderPaths == { <<"docs">>, <<"docs", "/">> }

\* the optional remoteName argument ("" stands for null and for '')
RemoteNames == {"", "r"}

NoCall == [localPath |-> <<>>, remoteName |-> ""]

RECURSIVE StripTrailingSlashes(_)
StripTrailingSlashes(p) ==
    IF p # <<>> /\ p[Len(p)] = "/"
    THEN StripTrailingSlashes(SubSeq(p, 1, Len(p) - 1))
    ELSE p

RECURSIVE AfterLastSlash(_)
AfterLastSlash(p) ==
    IF p = <<>> THEN <<>>
    ELSE IF p[Len(p)] = "/" THEN <<>>
    ELSE AfterLastSlash(SubSeq(p, 1, Len(p) - 1)) \o <<p[Len(p)]>>

basenameWhole(p) == IF p = <<>> THEN "" ELSE p[1]

\* path.basename(localPath): trailing separators are dropped, then what
\* follows the last separator is returned ('' when nothing is left)
basename(p) ==
    LET rest == AfterLastSlash(StripTrailingSlashes(p))
    IN IF rest = <<>> THEN "" ELSE rest[1]

\* const filename = remoteName || path.basename(localPath)
filename ==
    IF opCall.remoteName # "" THEN opCall.remoteName ELSE basename(opCall.localPath)

FileEntry == [kind |-> "-", items |-> {}]
LinkEntry == [kind |-> "l", items |-> {}]
DirEntry(items) == [kind |-> "d", items |-> items]

InitialRemotes ==
    { [exists |-> FALSE, entries |-> <<>>],
      [exists |-> TRUE, entries |-> <<>>],
      [exists |-> TRUE, entries |-> [n \in {"a.txt"} |-> FileEntry]],
      [exists |-> TRUE, entries |-> [n \in {"b.txt"} |-> LinkEntry]],
      [exists |-> TRUE,
       entries |-> [n \in {"a.txt", "docs"} |->
                       IF n = "docs" THEN DirEntry({"x"}) ELSE FileEntry]] }

MapDelAll(m, k) == <<>>

MapDel(m, k) == [x \in (DOMAIN m) \ {k} |-> m[x]]

PublicUrl(name) == <<"https://fileshare.ct-42210.com", "/", name>>

\* the key files ~/.ssh can hold: none, the default key and another one, or
\* only the other one
KeyFileSets ==
    { {}, { <<"id_ed25519">>, <<"id_rsa">> }, { <<"id_rsa">> } }

\* path.join(os.homedir(), '.ssh', getConfig('SSH_KEY_NAME')): a file of
\* ~/.ssh is identified by its name
getSSHKeyPath == getConfig("SSH_KEY_NAME")

isConfiguredAlways == TRUE

\* fs.existsSync(getSSHKeyPath())
isConfigured == getSSHKeyPath \in keyFiles

(* parseInt(text): leading blanks, an optional sign, then the longest run of *)
(* decimal digits; NaN when there is no digit.  (No input of the model has  *)
(* a radix prefix.)                                                          *)

Digits == <<"0", "1", "2", "3", "4", "5", "6", "7", "8", "9">>

IsDigit(c) == \E i \in 1..Len(Digits) : Digits[i] = c

DigitValue(c) == (CHOOSE i \in 1..Len(Digits) : Digits[i] = c) - 1

RECURSIVE TakeDigits(_)
TakeDigits(s) ==
    IF s # <<>> /\ IsDigit(Head(s)) THEN <<Head(s)>> \o TakeDigits(Tail(s)) ELSE <<>>

RECURSIVE DecimalValue(_)
DecimalValue(ds) ==
    IF ds = <<>> THEN 0
    ELSE DecimalValue(SubSeq(ds, 1, Len(ds) - 1)) * 10 + DigitValue(ds[Len(ds)])

NaN == [nan |-> TRUE, val |-> 0]

parseInt(text) ==
    LET s      == TrimLeft(text)
        signed == s # <<>> /\ Head(s) \in {"+", "-"}
        body   == IF signed THEN Tail(s) ELSE s
        ds     == TakeDigits(body)
    IN IF ds = <<>> THEN NaN
       ELSE [nan |-> FALSE,
             val |-> IF signed /\ Head(s) = "-" THEN 0 - DecimalValue(ds)
                     ELSE DecimalValue(ds)]

NoSshConfig == [host |-> <<>>, port |-> NaN, username |-> <<>>, privateKey |-> <<>>]

NoRet == [tag |-> "none"]
NoBatch == [active |-> FALSE, names |-> <<>>, results |-> <<>>]
NoInput == [text |-> <<>>, accepted |-> FALSE, asked |-> FALSE]

\* the size in bytes of the local file, and the sizes of the chunks in which
\* sftp.fastPut reports it as transferred
FileSize == 25

ChunkSizes == {1, 2}

\* let lastProgress = 0, nothing transferred and nothing displayed yet
NoProgress ==
    [current |-> 0, lastProgress |-> 0, drawn |-> FALSE, shown |-> 0, prev |-> 0,
     shownAt |-> 0, skipped |-> FALSE]

\* Math.floor((current / total) * 100)
Percent(current, total) == (current * 100) \div total

NeedsRedrawAlways(currentProgress, lastProgress, current, total) == TRUE

\* if (currentProgress >= lastProgress + 5 || current === total)
NeedsRedraw(currentProgress, lastProgress, current, total) ==
    currentProgress >= lastProgress + 5 \/ current = total

\* no process of a concurrent pair runs
NoProcs == <<>>

\* a process that has just been started
ProcessStart ==
    /\ sessions = 0
    /\ cmd = "none"
    /\ cmdPc = "none"
    /\ exited = FALSE
    /\ exitCode = 0
    /\ op = "none"
    /\ opPc = "none"
    /\ opArg = ""
    /\ opErr = "none"
    /\ opRet = NoRet
    /\ batch = NoBatch
    /\ connects = 0
    /\ callLog = <<>>
    /\ atStart = [remote |-> remote, env |-> env, file |-> file]
    /\ cancelled = "none"
    /\ item = NoItem
    /\ opCall = NoCall
    /\ sshConfig = NoSshConfig
    /\ steps = <<>>
    /\ thrown = <<>>
    /\ reports = <<>>
    /\ remoteAtThrow = remote
    /\ raised = <<>>
    /\ files = <<>>
    /\ selectedFiles = <<>>
    /\ action = "none"
    /\ lastInput = NoInput
    /\ progress = NoProgress

SftpInit ==
    /\ keyFiles \in KeyFileSets
    /\ remote \in InitialRemotes
    /\ ProcessStart
    /\ procs = NoProcs

----------------------------------------------------------------------------
(* Transfer client (api/sftp.js) *)

\* where control goes when a call inside `try { ... } finally { ... }` throws
AfterThrowSkipsFinally == "done"

AfterThrow == "finally"

\* sftp.end() closes the session
EndSessionKeepsOpen(n) == n

EndSession(n) == n - 1

FirstStep(o) ==
    CASE o = "uploadFile"     -> "mkdir"
      [] o = "uploadFolder"   -> "uploadDir"
      [] o = "listFiles"      -> "exists"
      [] o = "deleteFile"     -> "stat"
      [] o = "testConnection" -> "end"

\* a transfer-client function is entered: its first statement is createClient()
StartOp(o, arg) ==
    /\ op' = o
    /\ opPc' = "createClient"
    /\ opArg' = arg
    /\ opErr' = "none"
    /\ opRet' = NoRet

\* a deleteFile call that ends is recorded
LogCall(ok, removed) ==
    callLog' = IF op = "deleteFile"
               THEN Append(callLog, [name |-> opArg, ok |-> ok, removed |-> removed])
               ELSE callLog

Throw(e) ==
    /\ opErr' = e
    /\ opPc' = AfterThrow
    /\ IF opPc' = "done" THEN LogCall(FALSE, FALSE) ELSE callLog' = callLog

\* the step just taken is recorded, the remote directory as the step left it
\* when the step raised the operation's first error, and the error it raised
TrackOk(stepName, ok) ==
    /\ steps' = Append(steps, [step |-> stepName, ok |-> ok])
    /\ remoteAtThrow' = IF opErr = "none" /\ opErr' # "none" THEN remote'
                        ELSE remoteAtThrow
    /\ raised' = IF opErr' # opErr THEN Append(raised, opErr') ELSE raised

Track(stepName) == TrackOk(stepName, opErr' = opErr)

\* what no function of api/sftp.js changes
ApiFrame ==
    /\ UNCHANGED <<keyFiles, cmd, cmdPc, exited, exitCode, atStart, cancelled, item,
                   opCall, thrown, reports, uiVars>>
    /\ UNCHANGED cfgVars

Idle == cmd = "none" /\ op = "none" /\ ~batch.active /\ ~exited

DirectCalls ==
    { [op |-> "uploadFile", arg |-> "", call |-> [localPath |-> p, remoteName |-> r]] :
        p \in FilePaths, r \in RemoteNames }
    \cup
    { [op |-> "uploadFolder", arg |-> "", call |-> [localPath |-> p, remoteName |-> r]] :
        p \in FolderPaths, r \in RemoteNames }
    \cup
    { [op |-> o, arg |-> "", call |-> NoCall] : o \in {"listFiles", "testConnection"} }
    \cup
    { [op |-> "deleteFile", arg |-> n, call |-> NoCall] : n \in Names }

\* a caller invokes one exported function of api/sftp.js
Call(c) ==
    /\ Idle
    /\ StartOp(c.op, c.arg)
    /\ opCall' = c.call
    /\ UNCHANGED <<keyFiles, remote, sessions, cmd, cmdPc, exited, exitCode, batch,
                   connects, callLog, atStart, cancelled, item, sshConfig, steps,
                   thrown, reports, remoteAtThrow, raised, uiVars>>
    /\ UNCHANGED cfgVars

\* the sshConfig object is built (fs.readFileSync throws when the key file is
\* missing), then await sftp.connect(sshConfig)
createClient ==
    /\ op # "none"
    /\ opPc = "createClient"
    /\ \/ /\ getSSHKeyPath \notin keyFiles
          /\ opErr' = "ENOENT"
          /\ opPc' = "done"
          /\ LogCall(FALSE, FALSE)
          /\ UNCHANGED <<sessions, connects, sshConfig>>
       \/ /\ getSSHKeyPath \in keyFiles
          /\ sshConfig' = [host |-> getConfig("SERVER_HOST"),
                           port |-> parseInt(getConfig("SERVER_PORT")),
                           username |-> getConfig("SERVER_USER"),
                           privateKey |-> getSSHKeyPath]
          /\ connects' = connects + 1
          /\ \/ /\ sessions' = sessions + 1
                /\ opPc' = FirstStep(op)
                /\ UNCHANGED <<opErr, callLog>>
             \/ /\ opErr' = "ECONNREFUSED"
                /\ opPc' = "done"
                /\ LogCall(FALSE, FALSE)
                /\ UNCHANGED sessions
    /\ UNCHANGED <<remote, op, opArg, opRet, batch>>
    /\ Track(IF getSSHKeyPath \in keyFiles THEN "connect" ELSE "readKey")
    /\ ApiFrame

\* await sftp.mkdir(remoteDir, true)
uploadFile_mkdirUnchecked ==
    /\ op = "uploadFile"
    /\ opPc = "mkdir"
    /\ opPc' = "fastPut"
    /\ UNCHANGED <<opErr, callLog, sessions, op, opArg, opRet, batch, connects, sshConfig>>
    /\ \/ /\ remote' = [remote EXCEPT !.exists = TRUE]
          /\ TrackOk("mkdir", TRUE)
       \/ /\ UNCHANGED remote
          /\ TrackOk("mkdir", FALSE)
    /\ ApiFrame

uploadFile_mkdir ==
    /\ op = "uploadFile"
    /\ opPc = "mkdir"
    /\ \/ /\ remote' = [remote EXCEPT !.exists = TRUE]
          /\ opPc' = "fastPut"
          /\ UNCHANGED <<opErr, callLog>>
       \/ /\ Throw("EMKDIR")
          /\ UNCHANGED remote
    /\ UNCHANGED <<sessions, op, opArg, opRet, batch, connects, sshConfig>>
    /\ Track("mkdir")
    /\ ApiFrame

PutFileAlone(entries, name) == [n \in {name} |-> FileEntry]

\* what a completed sftp.fastPut leaves in the remote directory: the file
\* remotePath, written or overwritten
PutFile(entries, name) == MapPut(entries, name, FileEntry)

\* sftp.fastPut writes remotePath unless a directory is in the way
CanPut(entries, name) == ~(name \in DOMAIN entries /\ entries[name].kind = "d")

\* the `step` option of sftp.fastPut: a chunk has been transferred and the
\* progressCallback of uploadCommand is called with the bytes sent so far;
\* it calls displayProgress and sets lastProgress when the percentage has
\* advanced enough.  (A direct caller of uploadFile passes no callback.)
\* The record keeps, besides current and lastProgress, what the bar showed
\* at its latest redraw (shown, shownAt) and at the redraw before it (prev).
uploadFile_step ==
    /\ cmd = "upload"
    /\ op = "uploadFile"
    /\ opPc = "fastPut"
    /\ progress.current < FileSize
    /\ \E chunk \in ChunkSizes :
          LET sent            == progress.current + chunk
              current         == IF sent > FileSize THEN FileSize ELSE sent
              currentProgress == Percent(current, FileSize)
          IN progress' =
                IF NeedsRedraw(currentProgress, progress.lastProgress, current, FileSize)
                THEN [current |-> current, lastProgress |-> currentProgress,
                      drawn |-> TRUE, shown |-> currentProgress,
                      prev |-> IF progress.drawn THEN progress.shown ELSE 0,
                      shownAt |-> current, skipped |-> FALSE]
                ELSE [progress EXCEPT !.current = current, !.skipped = TRUE]
    /\ UNCHANGED <<keyFiles, remote, sessions, cmd, cmdPc, exited, exitCode, op, opPc,
                   opArg, opErr, opRet, batch, connects, callLog, atStart, cancelled, item, opCall,
                   sshConfig, steps, thrown, reports, remoteAtThrow, raised,
                   files, selectedFiles, action, lastInput, procs>>
    /\ UNCHANGED cfgVars

\* await sftp.fastPut(localPath, remotePath, ...); return {filename, url}
\* (fastPut resolves after the last chunk was reported)
uploadFile_fastPut ==
    /\ op = "uploadFile"
    /\ opPc = "fastPut"
    /\ \/ /\ cmd = "upload" => progress.current = FileSize
          /\ CanPut(remote.entries, filename)
          /\ remote' = [remote EXCEPT !.entries = PutFile(@, filename)]
          /\ opRet' = [tag |-> "upload", filename |-> filename, url |-> PublicUrl(filename)]
          /\ opPc' = "finally"
          /\ UNCHANGED <<opErr, callLog>>
       \/ /\ Throw("EPUT")
          /\ \/ UNCHANGED remote
             \/ /\ CanPut(remote.entries, filename)
                /\ remote' = [remote EXCEPT !.entries = PutFile(@, filename)]
          /\ UNCHANGED opRet
    /\ UNCHANGED <<sessions, op, opArg, batch, connects, sshConfig>>
    /\ Track("fastPut")
    /\ ApiFrame

ItemsOf(entries, name) ==
    IF name \in DOMAIN entries THEN entries[name].items ELSE {}

\* await sftp.uploadDir(localPath, remotePath); return {filename, url}
uploadFolder_uploadDir ==
    /\ op = "uploadFolder"
    /\ opPc = "uploadDir"
    /\ \/ /\ remote' = [exists |-> TRUE,
                        entries |-> MapPut(remote.entries, filename,
                                     DirEntry(ItemsOf(remote.entries, filename) \cup FolderFiles))]
          /\ opRet' = [tag |-> "upload", filename |-> filename, url |-> PublicUrl(filename)]
          /\ opPc' = "finally"
          /\ UNCHANGED <<opErr, callLog>>
       \/ /\ Throw("EUPLOADDIR")
          /\ \/ UNCHANGED remote
             \/ \E sent \in (SUBSET FolderFiles) \ {FolderFiles} :
                   remote' = [exists |-> TRUE,
                              entries |-> MapPut(remote.entries, filename,
                                           DirEntry(ItemsOf(remote.entries, filename) \cup sent))]
          /\ UNCHANGED opRet
    /\ UNCHANGED <<sessions, op, opArg, batch, connects, sshConfig>>
    /\ Track("uploadDir")
    /\ ApiFrame

\* where listFiles goes after `const exists = await sftp.exists(remoteDir)`
AfterExistsUnchecked(exists) == "list"

AfterExists(exists) == IF exists THEN "list" ELSE "return"

\* const exists = await sftp.exists(remoteDir); if (!exists) return []
listFiles_exists ==
    /\ op = "listFiles"
    /\ opPc = "exists"
    /\ \/ IF AfterExists(remote.exists) = "list"
          THEN /\ opPc' = "list"
               /\ UNCHANGED <<opErr, opRet, callLog>>
          ELSE /\ opRet' = [tag |-> "list", value |-> <<>>]
               /\ opPc' = "finally"
               /\ UNCHANGED <<opErr, callLog>>
       \/ /\ Throw("EEXISTS")
          /\ UNCHANGED opRet
    /\ UNCHANGED <<remote, sessions, op, opArg, batch, connects, sshConfig>>
    /\ Track("exists")
    /\ ApiFrame

\* what sftp.list(remoteDir) resolves with: one item per entry of the
\* directory, and the items '.' and '..' when the server and the library
\* report them
RECURSIVE RawEntries(_, _)
RawEntries(order, entries) ==
    IF order = <<>> THEN <<>>
    ELSE (IF Head(order) \in DOMAIN entries
          THEN << [name |-> Head(order), type |-> entries[Head(order)].kind] >>
          ELSE <<>>)
         \o RawEntries(Tail(order), entries)

RawList(entries, dots) ==
    (IF dots THEN << [name |-> ".", type |-> "d"], [name |-> "..", type |-> "d"] >>
     ELSE <<>>)
    \o RawEntries(NameOrder, entries)

RECURSIVE ListingUnfiltered(_)
ListingUnfiltered(fileList) ==
    IF fileList = <<>> THEN <<>>
    ELSE << [name |-> Head(fileList).name,
             type |-> IF Head(fileList).type = "d" THEN "directory" ELSE "file"] >>
         \o ListingUnfiltered(Tail(fileList))

\* fileList.filter(item => item.name !== '.' && item.name !== '..')
\*         .map(item => ({ name: item.name,
\*                         type: item.type === 'd' ? 'directory' : 'file', ... }))
RECURSIVE Listing(_)
Listing(fileList) ==
    IF fileList = <<>> THEN <<>>
    ELSE (IF Head(fileList).name # "." /\ Head(fileList).name # ".."
          THEN << [name |-> Head(fileList).name,
                   type |-> IF Head(fileList).type = "d" THEN "directory" ELSE "file"] >>
          ELSE <<>>)
         \o Listing(Tail(fileList))

\* const fileList = await sftp.list(remoteDir); return fileList.filter(...).map(...)
\* (sftp.list of a directory that does not exist raises an error)
listFiles_list ==
    /\ op = "listFiles"
    /\ opPc = "list"
    /\ \/ /\ remote.exists
          /\ \E dots \in BOOLEAN :
                opRet' = [tag |-> "list", value |-> Listing(RawList(remote.entries, dots))]
          /\ opPc' = "finally"
          /\ UNCHANGED <<opErr, callLog>>
       \/ /\ Throw(IF remote.exists THEN "ELIST" ELSE "ENOENT_REMOTE")
          /\ UNCHANGED opRet
    /\ UNCHANGED <<remote, sessions, op, opArg, batch, connects, sshConfig>>
    /\ Track("list")
    /\ ApiFrame

\* const stat = await sftp.stat(remotePath)
deleteFile_stat ==
    /\ op = "deleteFile"
    /\ opPc = "stat"
    /\ \/ /\ opArg \in DOMAIN remote.entries
          /\ opPc' = IF remote.entries[opArg].kind = "d" THEN "rmdir" ELSE "delete"
          /\ UNCHANGED <<opErr, callLog>>
       \/ Throw(IF opArg \in DOMAIN remote.entries THEN "ESTAT" ELSE "ENOENT_REMOTE")
    /\ UNCHANGED <<remote, sessions, op, opArg, opRet, batch, connects, sshConfig>>
    /\ Track("stat")
    /\ ApiFrame

\* await sftp.rmdir(remotePath, true); return true
deleteFile_rmdir ==
    /\ op = "deleteFile"
    /\ opPc = "rmdir"
    /\ \/ /\ remote' = [remote EXCEPT !.entries = MapDel(@, opArg)]
          /\ opRet' = [tag |-> "true"]
          /\ opPc' = "finally"
          /\ UNCHANGED <<opErr, callLog>>
       \/ /\ Throw("ERMDIR")
          /\ \E rest \in SUBSET remote.entries[opArg].items :
                remote' = [remote EXCEPT !.entries = MapPut(@, opArg, DirEntry(rest))]
          /\ UNCHANGED opRet
    /\ UNCHANGED <<sessions, op, opArg, batch, connects, sshConfig>>
    /\ Track("rmdir")
    /\ ApiFrame

\* await sftp.delete(remotePath); return true
deleteFile_delete ==
    /\ op = "deleteFile"
    /\ opPc = "delete"
    /\ \/ /\ remote' = [remote EXCEPT !.entries = MapDel(@, opArg)]
          /\ opRet' = [tag |-> "true"]
          /\ opPc' = "finally"
          /\ UNCHANGED <<opErr, callLog>>
       \/ /\ Throw("EDELETE")
          /\ UNCHANGED <<remote, opRet>>
    /\ UNCHANGED <<sessions, op, opArg, batch, connects, sshConfig>>
    /\ Track("delete")
    /\ ApiFrame

\* testConnection: await sftp.end(); return true  (no try block)
testConnection_end ==
    /\ op = "testConnection"
    /\ opPc = "end"
    /\ sessions' = EndSession(sessions)
    /\ opPc' = "done"
    /\ \/ opRet' = [tag |-> "true"] /\ UNCHANGED opErr
       \/ opErr' = "EEND" /\ UNCHANGED opRet
    /\ UNCHANGED <<remote, op, opArg, batch, connects, callLog, sshConfig>>
    /\ Track("end")
    /\ ApiFrame

\* a cleanup block that undoes what the failed operation had transferred
FinallyRollsBack ==
    /\ op \in {"uploadFile", "uploadFolder", "listFiles", "deleteFile"}
    /\ opPc = "finally"
    /\ sessions' = EndSession(sessions)
    /\ opPc' = "done"
    /\ UNCHANGED <<opErr, opRet>>
    /\ LogCall(opErr = "none", opRet.tag = "true")
    /\ remote' = IF opErr = "none" THEN remote ELSE atStart.remote
    /\ UNCHANGED <<op, opArg, batch, connects, sshConfig>>
    /\ Track("end")
    /\ ApiFrame

\* finally { await sftp.end(); } : an error of end() replaces the pending
\* return value or error
Finally ==
    /\ op \in {"uploadFile", "uploadFolder", "listFiles", "deleteFile"}
    /\ opPc = "finally"
    /\ sessions' = EndSession(sessions)
    /\ opPc' = "done"
    /\ \/ /\ UNCHANGED <<opErr, opRet>>
          /\ LogCall(opErr = "none", opRet.tag = "true")
       \/ /\ opErr' = "EEND"
          /\ opRet' = NoRet
          /\ LogCall(FALSE, opRet.tag = "true")
    /\ UNCHANGED <<remote, op, opArg, batch, connects, sshConfig>>
    /\ Track("end")
    /\ ApiFrame

\* the lists handed to deleteMultipleFiles
BatchLists == UNION { [1..n -> Names] : n \in 0..MaxBatch }

\* const results = []; the loop takes the first name, or returns at once
deleteMultipleFilesEnter(filenames) ==
    IF filenames = <<>>
    THEN /\ batch' = [active |-> FALSE, names |-> filenames, results |-> <<>>]
         /\ op' = "deleteMultipleFiles"
         /\ opPc' = "done"
         /\ opRet' = [tag |-> "results"]
         /\ UNCHANGED <<opArg, opErr>>
    ELSE /\ batch' = [active |-> TRUE, names |-> filenames, results |-> <<>>]
         /\ StartOp("deleteFile", filenames[1])

\* a caller invokes deleteMultipleFiles
deleteMultipleFiles(filenames) ==
    /\ Idle
    /\ deleteMultipleFilesEnter(filenames)
    /\ UNCHANGED <<keyFiles, remote, sessions, cmd, cmdPc, exited, exitCode,
                   connects, callLog, atStart, cancelled, item, opCall, sshConfig,
                   steps, thrown, reports, remoteAtThrow, raised, uiVars>>
    /\ UNCHANGED cfgVars

\* the loop body after `await deleteFile(filename)`: push the result, then take
\* the next name or return results
deleteMultipleFilesStopsAtError ==
    /\ batch.active
    /\ op = "deleteFile"
    /\ opPc = "done"
    /\ IF opErr = "none"
       THEN LET results == Append(batch.results, [filename |-> opArg, success |-> TRUE,
                                                  error |-> "none"])
            IN IF Len(results) < Len(batch.names)
               THEN /\ batch' = [batch EXCEPT !.results = results]
                    /\ StartOp("deleteFile", batch.names[Len(results) + 1])
               ELSE /\ batch' = [batch EXCEPT !.results = results, !.active = FALSE]
                    /\ op' = "deleteMultipleFiles"
                    /\ opPc' = "done"
                    /\ opErr' = "none"
                    /\ opRet' = [tag |-> "results"]
                    /\ UNCHANGED opArg
       ELSE /\ batch' = [batch EXCEPT !.active = FALSE]
            /\ op' = "deleteMultipleFiles"
            /\ opPc' = "done"
            /\ opRet' = NoRet
            /\ UNCHANGED <<opArg, opErr>>
    /\ UNCHANGED <<remote, sessions, connects, callLog, sshConfig, steps, remoteAtThrow,
                   raised>>
    /\ ApiFrame

deleteMultipleFilesCollect ==
    /\ batch.active
    /\ op = "deleteFile"
    /\ opPc = "done"
    /\ LET results == Append(batch.results,
                             [filename |-> opArg, success |-> opErr = "none",
                              error |-> opErr])
       IN IF Len(results) < Len(batch.names)
          THEN /\ batch' = [batch EXCEPT !.results = results]
               /\ StartOp("deleteFile", batch.names[Len(results) + 1])
          ELSE /\ batch' = [batch EXCEPT !.results = results, !.active = FALSE]
               /\ op' = "deleteMultipleFiles"
               /\ opPc' = "done"
               /\ opErr' = "none"
               /\ opRet' = [tag |-> "results"]
               /\ UNCHANGED opArg
    /\ UNCHANGED <<remote, sessions, connects, callLog, sshConfig, steps, remoteAtThrow,
                   raised>>
    /\ ApiFrame

----------------------------------------------------------------------------
(* Commands (commands/upload.js, delete.js, setup.js, password.js, about.js) *)

opVars == <<op, opPc, opArg, opErr, opRet>>

\* what no command changes by itself
CmdFrame ==
    UNCHANGED <<keyFiles, remote, sessions, connects, callLog, sshConfig,
                remoteAtThrow, raised, atStart>>

Exit(code) == exited' = TRUE /\ exitCode' = code

Step(name, ok) == steps' = Append(steps, [step |-> name, ok |-> ok])

\* the prompts of ui/select.js
PromptSteps ==
    {"selectFileOrFolder", "selectMultipleFiles", "confirm", "textInput", "selectAction"}

\* the exit status the command's catch block ends the process with
CatchExitZero(e) == IF e = "none" THEN 0 ELSE 0

CatchExit(e) == IF e = "none" THEN 0 ELSE 1

\* catch (error) { displayError(error); process.exit(1); }
\* displayError prints the code, the message and the stack of the error
CatchError(e) ==
    /\ thrown' = Append(thrown, [err |-> e, handler |-> "command"])
    /\ reports' = Append(reports, [err |-> e, detail |-> "full"])
    /\ cmdPc' = "done"
    /\ Exit(CatchExit(e))

\* the command is started
uploadCommand ==
    /\ Idle
    /\ cmd' = "upload"
    /\ cmdPc' = "requireConfig"
    /\ UNCHANGED <<exited, exitCode, opVars, batch, cancelled, item, opCall, steps,
                   thrown, reports, uiVars>>
    /\ CmdFrame
    /\ UNCHANGED cfgVars

deleteCommand ==
    /\ Idle
    /\ cmd' = "delete"
    /\ cmdPc' = "requireConfig"
    /\ UNCHANGED <<exited, exitCode, opVars, batch, cancelled, item, opCall, steps,
                   thrown, reports, uiVars>>
    /\ CmdFrame
    /\ UNCHANGED cfgVars

passwordCommand ==
    /\ Idle
    /\ cmd' = "password"
    /\ cmdPc' = "requireConfig"
    /\ UNCHANGED <<exited, exitCode, opVars, batch, cancelled, item, opCall, steps,
                   thrown, reports, uiVars>>
    /\ CmdFrame
    /\ UNCHANGED cfgVars

\* requireConfig(config): process.exit(1) when the key file is missing;
\* otherwise the command goes on: upload to its selection prompt, delete to
\* `await sftp.listFiles()`, password to its explanation and its end
requireConfig ==
    /\ cmd \in {"upload", "delete", "password"}
    /\ cmdPc = "requireConfig"
    /\ ~exited
    /\ Step("requireConfig", isConfigured)
    /\ IF isConfigured
       THEN CASE cmd = "upload" ->
                   /\ cmdPc' = "select"
                   /\ UNCHANGED <<exited, exitCode, opVars>>
              [] cmd = "delete" ->
                   /\ cmdPc' = "listing"
                   /\ StartOp("listFiles", "")
                   /\ UNCHANGED <<exited, exitCode>>
              [] cmd = "password" ->
                   /\ cmdPc' = "done"
                   /\ Exit(0)
                   /\ UNCHANGED opVars
       ELSE /\ cmdPc' = "done"
            /\ Exit(1)
            /\ UNCHANGED opVars
    /\ UNCHANGED <<cmd, batch, cancelled, item, opCall, thrown, reports, uiVars>>
    /\ CmdFrame
    /\ UNCHANGED cfgVars

\* const item = await selectFileOrFolder(process.cwd()); if (!item) return
uploadCommand_select ==
    /\ cmd = "upload"
    /\ cmdPc = "select"
    /\ \/ \E chosen \in LocalItems :
             /\ item' = chosen
             /\ cmdPc' = "confirm"
             /\ Step("selectFileOrFolder", TRUE)
             /\ UNCHANGED <<exited, exitCode, cancelled, thrown, reports>>
       \/ /\ cancelled' = "select"
          /\ cmdPc' = "done"
          /\ Exit(0)
          /\ Step("selectFileOrFolder", TRUE)
          /\ UNCHANGED <<item, thrown, reports>>
       \/ /\ CatchError("EPROMPT")
          /\ Step("selectFileOrFolder", FALSE)
          /\ UNCHANGED <<item, cancelled>>
    /\ UNCHANGED <<cmd, opVars, batch, opCall, uiVars>>
    /\ CmdFrame
    /\ UNCHANGED cfgVars

\* where the command goes after `const confirmed = await confirm(...)`
AfterConfirmIgnoresAnswer(confirmed) == "upload"

AfterConfirm(confirmed) == IF confirmed THEN "upload" ELSE "return"

\* the confirmation, then sftp.uploadFolder(item.path) or
\* sftp.uploadFile(item.path, null, ...)
uploadCommand_confirm ==
    /\ cmd = "upload"
    /\ cmdPc = "confirm"
    /\ Step("confirm", TRUE)
    /\ \E confirmed \in BOOLEAN :
          IF AfterConfirm(confirmed) = "upload"
          THEN /\ cmdPc' = "uploading"
               /\ StartOp(IF item.isDirectory THEN "uploadFolder" ELSE "uploadFile", "")
               /\ opCall' = [localPath |-> item.path, remoteName |-> ""]
               /\ cancelled' = IF confirmed THEN cancelled ELSE "confirm"
               /\ UNCHANGED <<exited, exitCode>>
          ELSE /\ cancelled' = "confirm"
               /\ cmdPc' = "done"
               /\ Exit(0)
               /\ UNCHANGED <<opVars, opCall>>
    /\ UNCHANGED <<cmd, batch, item, thrown, reports, uiVars>>
    /\ CmdFrame
    /\ UNCHANGED cfgVars

\* the result is displayed, or catch (error) { displayError(error); process.exit(1) }
uploadCommand_finish ==
    /\ cmd = "upload"
    /\ cmdPc = "uploading"
    /\ opPc = "done"
    /\ IF opErr = "none"
       THEN /\ cmdPc' = "done"
            /\ Exit(0)
            /\ UNCHANGED <<thrown, reports>>
       ELSE CatchError(opErr)
    /\ UNCHANGED <<cmd, opVars, batch, cancelled, item, opCall, steps, uiVars>>
    /\ CmdFrame
    /\ UNCHANGED cfgVars

NamesInWholeOrder(order, chosen) == order

\* the names of a listing, in the order they are presented
RECURSIVE NamesIn(_, _)
NamesIn(order, chosen) ==
    IF order = <<>> THEN <<>>
    ELSE (IF Head(order) \in chosen THEN <<Head(order)>> ELSE <<>>)
         \o NamesIn(Tail(order), chosen)

AfterListFilesAlwaysSelects(list) == "select"

\* where the delete command goes after `const files = await sftp.listFiles()`
AfterListFiles(list) == IF Len(list) = 0 THEN "return" ELSE "select"

\* const files = await sftp.listFiles(); if (files.length === 0) return
deleteCommand_listFiles ==
    /\ cmd = "delete"
    /\ cmdPc = "listing"
    /\ op = "listFiles"
    /\ opPc = "done"
    /\ IF opErr # "none"
       THEN /\ CatchError(opErr)
            /\ UNCHANGED files
       ELSE /\ files' = opRet.value
            /\ IF AfterListFiles(opRet.value) = "return"
               THEN cmdPc' = "done" /\ Exit(0)
               ELSE cmdPc' = "select" /\ UNCHANGED <<exited, exitCode>>
            /\ UNCHANGED <<thrown, reports>>
    /\ UNCHANGED <<cmd, opVars, batch, cancelled, item, opCall, steps,
                   selectedFiles, action, lastInput, progress, procs>>
    /\ CmdFrame
    /\ UNCHANGED cfgVars

\* files.map(f => f.name): the choices of the checkbox prompt
NamesOf(list) == { list[i].name : i \in DOMAIN list }

\* the validator of the checkbox prompt
AtLeastOne(answer) == Len(answer) >= 1

\* const selectedFiles = await selectMultipleFiles(files.map(f => f.name));
\* if (selectedFiles.length === 0) return
\* An answer the validator rejects leaves the prompt open.
deleteCommand_select ==
    /\ cmd = "delete"
    /\ cmdPc = "select"
    /\ \/ \E chosen \in SUBSET NamesOf(files) :
             LET answer == NamesIn(NameOrder, chosen) IN
             IF AtLeastOne(answer)
             THEN /\ selectedFiles' = answer
                  /\ Step("selectMultipleFiles", TRUE)
                  /\ lastInput' = [text |-> answer, accepted |-> TRUE, asked |-> TRUE]
                  /\ IF Len(answer) = 0
                     THEN /\ cancelled' = "select"
                          /\ cmdPc' = "done"
                          /\ Exit(0)
                     ELSE /\ cmdPc' = "confirm"
                          /\ UNCHANGED <<exited, exitCode, cancelled>>
                  /\ UNCHANGED <<thrown, reports>>
             ELSE /\ lastInput' = [text |-> answer, accepted |-> FALSE, asked |-> TRUE]
                  /\ UNCHANGED <<selectedFiles, steps, cmdPc, exited, exitCode,
                                 cancelled, thrown, reports>>
       \/ /\ CatchError("EPROMPT")
          /\ Step("selectMultipleFiles", FALSE)
          /\ UNCHANGED <<selectedFiles, lastInput, cancelled>>
    /\ UNCHANGED <<cmd, opVars, batch, item, opCall, files, action, progress,
                   procs>>
    /\ CmdFrame
    /\ UNCHANGED cfgVars

\* where the delete command goes after `const confirmed = await confirm(message)`
AfterDeleteConfirmIgnoresAnswer(confirmed) == "delete"

AfterDeleteConfirm(confirmed) == IF confirmed THEN "delete" ELSE "return"

\* the confirmation, then sftp.deleteMultipleFiles(selectedFiles)
deleteCommand_confirm ==
    /\ cmd = "delete"
    /\ cmdPc = "confirm"
    /\ Step("confirm", TRUE)
    /\ \E confirmed \in BOOLEAN :
          /\ cancelled' = IF confirmed THEN cancelled ELSE "confirm"
          /\ IF AfterDeleteConfirm(confirmed) = "delete"
             THEN /\ cmdPc' = "deleting"
                  /\ deleteMultipleFilesEnter(selectedFiles)
                  /\ UNCHANGED <<exited, exitCode>>
             ELSE /\ cmdPc' = "done"
                  /\ Exit(0)
                  /\ UNCHANGED <<opVars, batch>>
    /\ UNCHANGED <<cmd, item, opCall, thrown, reports, uiVars>>
    /\ CmdFrame
    /\ UNCHANGED cfgVars

\* what the command prints for the failed items: r.filename and r.error, and
\* r.error is error.message alone
RECURSIVE FailedItems(_)
FailedItems(results) ==
    IF results = <<>> THEN <<>>
    ELSE (IF Head(results).success THEN <<>>
          ELSE << [err |-> Head(results).error, detail |-> "message"] >>)
         \o FailedItems(Tail(results))

\* the results are displayed: the successes, then the failures
deleteCommand_report ==
    /\ cmd = "delete"
    /\ cmdPc = "deleting"
    /\ op = "deleteMultipleFiles"
    /\ opPc = "done"
    /\ reports' = reports \o FailedItems(batch.results)
    /\ cmdPc' = "done"
    /\ Exit(0)
    /\ UNCHANGED <<cmd, opVars, batch, cancelled, item, opCall, steps, thrown, uiVars>>
    /\ CmdFrame
    /\ UNCHANGED cfgVars

\* the actions of the setup menu, and the key each text prompt saves
Actions == {"ssh_key", "server_dir", "server_host", "server_port", "test", "exit"}

KeyOfPort(a) == "SERVER_PORT"

KeyOf(a) ==
    CASE a = "ssh_key"     -> "SSH_KEY_NAME"
      [] a = "server_dir"  -> "SERVER_DIRECTORY"
      [] a = "server_host" -> "SERVER_HOST"
      [] a = "server_port" -> "SERVER_PORT"

\* what the user may type at each text prompt (one token per character,
\* or one token for a whole name)
KeyInputs == { <<>>, <<"id_rsa">>, <<"nokey">>, <<"k", "#", "2">> }

DirInputs == { <<>>, <<"s", "r", "v">>, <<"/", "s", "r", "v">> }

HostInputs == { <<>>, <<"h">> }

PortInputs ==
    { <<>>,
      <<"0">>,
      <<"7", "0", "0", "0", "0">>,
      <<"a", "b", "c">>,
      <<"2", "2">>,
      <<"6", "5", "5", "3", "5">>,
      <<"6", "5", "5", "3", "6">>,
      <<"-", "5">>,
      <<"2", "2", "a", "b", "c">>,
      <<"1", ".", "5">> }

InputsFor(a) ==
    CASE a = "ssh_key"     -> KeyInputs
      [] a = "server_dir"  -> DirInputs
      [] a = "server_host" -> HostInputs
      [] a = "server_port" -> PortInputs

validateAlways(a, input) == TRUE

\* the validator handed to textInput by each change function: TRUE when it
\* returns true, FALSE when it returns a message
validate(a, input) ==
    CASE a = "ssh_key"     -> Len(input) # 0 /\ input \in keyFiles
      [] a = "server_dir"  -> Len(input) # 0 /\ Head(input) = "/"
      [] a = "server_host" -> Len(input) > 0
      [] a = "server_port" ->
            LET port == parseInt(input)
            IN ~(port.nan \/ port.val < 1 \/ port.val > 65535)

setupCommand ==
    /\ Idle
    /\ cmd' = "setup"
    /\ cmdPc' = "menu"
    /\ UNCHANGED <<exited, exitCode, opVars, batch, cancelled, item, opCall, steps,
                   thrown, reports, uiVars>>
    /\ CmdFrame
    /\ UNCHANGED cfgVars

\* const action = await selectAction([...]); switch (action) { ... }
setupCommand_selectAction ==
    /\ cmd = "setup"
    /\ cmdPc = "menu"
    /\ \/ \E a \in Actions :
             /\ action' = a
             /\ Step("selectAction", TRUE)
             /\ CASE a = "exit" ->
                       /\ cmdPc' = "done"
                       /\ Exit(0)
                       /\ UNCHANGED opVars
                  [] a = "test" ->
                       /\ cmdPc' = "testing"
                       /\ StartOp("testConnection", "")
                       /\ UNCHANGED <<exited, exitCode>>
                  [] OTHER ->
                       /\ cmdPc' = "input"
                       /\ UNCHANGED <<exited, exitCode, opVars>>
             /\ UNCHANGED <<thrown, reports>>
       \/ /\ CatchError("EPROMPT")
          /\ Step("selectAction", FALSE)
          /\ UNCHANGED <<action, opVars>>
    /\ UNCHANGED <<cmd, batch, cancelled, item, opCall, files, selectedFiles, lastInput,
                   progress, procs>>
    /\ CmdFrame
    /\ UNCHANGED cfgVars

\* changeSSHKey, changeServerDirectory, changeServerHost, changeServerPort:
\* const value = await textInput(message, validator); config.saveConfig(key, value)
\* An input the validator rejects leaves the prompt open.  saveConfig raises
\* an error when the settings file cannot be written.
setupCommand_textInput ==
    /\ cmd = "setup"
    /\ cmdPc = "input"
    /\ \E input \in InputsFor(action) :
          IF validate(action, input)
          THEN /\ lastInput' = [text |-> input, accepted |-> TRUE, asked |-> TRUE]
               /\ Step("textInput", TRUE)
               /\ \/ /\ saveConfigDone(KeyOf(action), input)
                     /\ IF action \in {"ssh_key", "server_host"}
                        THEN cmdPc' = "confirmTest" /\ UNCHANGED <<exited, exitCode>>
                        ELSE cmdPc' = "done" /\ Exit(0)
                     /\ UNCHANGED <<thrown, reports>>
                  \/ /\ CatchError("EACCES")
                     /\ UNCHANGED cfgVars
          ELSE /\ lastInput' = [text |-> input, accepted |-> FALSE, asked |-> TRUE]
               /\ UNCHANGED <<steps, cmdPc, exited, exitCode, thrown, reports>>
               /\ UNCHANGED cfgVars
    /\ UNCHANGED <<cmd, opVars, batch, cancelled, item, opCall, files, selectedFiles,
                   action, progress, procs>>
    /\ CmdFrame

\* const testNow = await confirm('Test connection with new ...?');
\* if (testNow) await testServerConnection()
setupCommand_confirmTest ==
    /\ cmd = "setup"
    /\ cmdPc = "confirmTest"
    /\ Step("confirm", TRUE)
    /\ \E testNow \in BOOLEAN :
          IF testNow
          THEN /\ cmdPc' = "testing"
               /\ StartOp("testConnection", "")
               /\ UNCHANGED <<exited, exitCode>>
          ELSE /\ cmdPc' = "done"
               /\ Exit(0)
               /\ UNCHANGED opVars
    /\ UNCHANGED <<cmd, batch, cancelled, item, opCall, thrown, reports, uiVars>>
    /\ CmdFrame
    /\ UNCHANGED cfgVars

\* testServerConnection: try { await sftp.testConnection(); displaySuccess(...) }
\* catch (error) { ... console.log(chalk.red('Error:'), error.message) ... }
\* and the command returns
testServerConnection ==
    /\ cmd = "setup"
    /\ cmdPc = "testing"
    /\ op = "testConnection"
    /\ opPc = "done"
    /\ IF opErr = "none"
       THEN UNCHANGED <<thrown, reports>>
       ELSE /\ thrown' = Append(thrown, [err |-> opErr, handler |-> "testServerConnection"])
            /\ reports' = Append(reports, [err |-> opErr, detail |-> "message"])
    /\ cmdPc' = "done"
    /\ Exit(0)
    /\ UNCHANGED <<cmd, opVars, batch, cancelled, item, opCall, steps, uiVars>>
    /\ CmdFrame
    /\ UNCHANGED cfgVars

aboutCommand ==
    /\ Idle
    /\ cmd' = "about"
    /\ cmdPc' = "logo"
    /\ UNCHANGED <<exited, exitCode, opVars, batch, cancelled, item, opCall, steps,
                   thrown, reports, uiVars>>
    /\ CmdFrame
    /\ UNCHANGED cfgVars

\* try { const ascii = await asciify(logoPath, options); ... }
\* catch (logoError) { console.log('') }, then the information is printed
aboutCommand_logo ==
    /\ cmd = "about"
    /\ cmdPc = "logo"
    /\ \/ UNCHANGED thrown
       \/ thrown' = Append(thrown, [err |-> "ELOGO", handler |-> "aboutCommand"])
    /\ cmdPc' = "done"
    /\ Exit(0)
    /\ UNCHANGED <<cmd, opVars, batch, cancelled, item, opCall, steps, reports, uiVars>>
    /\ CmdFrame
    /\ UNCHANGED cfgVars

SftpNext ==
    \/ \E c \in DirectCalls : Call(c)
    \/ \E names \in BatchLists : deleteMultipleFiles(names)
    \/ createClient
    \/ uploadFile_mkdir
    \/ uploadFile_step
    \/ uploadFile_fastPut
    \/ uploadFolder_uploadDir
    \/ listFiles_exists
    \/ listFiles_list
    \/ deleteFile_stat
    \/ deleteFile_rmdir
    \/ deleteFile_delete
    \/ testConnection_end
    \/ Finally
    \/ deleteMultipleFilesCollect
    \/ uploadCommand
    \/ deleteCommand
    \/ passwordCommand
    \/ setupCommand
    \/ aboutCommand
    \/ requireConfig
    \/ uploadCommand_select
    \/ uploadCommand_confirm
    \/ uploadCommand_finish
    \/ deleteCommand_listFiles
    \/ deleteCommand_select
    \/ deleteCommand_confirm
    \/ deleteCommand_report
    \/ setupCommand_selectAction
    \/ setupCommand_textInput
    \/ setupCommand_confirmTest
    \/ testServerConnection
    \/ aboutCommand_logo

----------------------------------------------------------------------------
(* Specifications *)

\* the configuration store on its own: no command runs
InitConfig ==
    /\ CfgInit
    /\ SftpInit
    /\ keyFiles = { <<"id_ed25519">>, <<"id_rsa">> }
    /\ remote.exists = FALSE

SpecConfig == InitConfig /\ [][CfgNext]_vars

\* one process that runs one command or calls one function of api/sftp.js,
\* with the configuration as loaded at startup
InitSftp ==
    /\ CfgInit
    /\ shellEnv = <<>>
    /\ SftpInit

SpecSftp == InitSftp /\ [][SftpNext]_vars


----------------------------------------------------------------------------
(* Two delete commands at once (commands/delete.js, api/sftp.js)           *)
(*                                                                         *)
(* Two processes run deleteCommand against the same remote directory.  The *)
(* server is reachable and answers every request according to the state of *)
(* the directory: a request fails only when what it names is not there.    *)
(* sftp.rmdir(path, true) of the library is several requests: it lists the *)
(* directory, sends one unlink request per file, all at once, and removes  *)
(* the directory when every unlink has been answered without an error.     *)

Invocations == {1, 2}

RaceRemote ==
    [exists |-> TRUE,
     entries |-> [n \in {"a.txt", "docs"} |->
                     IF n = "docs" THEN DirEntry(FolderFiles) ELSE FileEntry]]

NoProc ==
    [pc |-> "start", files |-> <<>>, selectedFiles |-> <<>>, pending |-> {},
     unlinkFailed |-> FALSE, results |-> <<>>, exited |-> FALSE, exitCode |-> 0]

\* what the race leaves alone: everything but the remote directory and the
\* two processes
RaceFrame ==
    /\ UNCHANGED <<keyFiles, sessions, cmd, cmdPc, exited, exitCode, op, opPc, opArg,
                   opErr, opRet, batch, connects, callLog, atStart, cancelled, item,
                   opCall, sshConfig, steps, thrown, reports, remoteAtThrow, raised,
                   files, selectedFiles, action, lastInput, progress>>
    /\ UNCHANGED cfgVars

\* process i moves to the record p
Becomes(i, p) == procs' = [procs EXCEPT ![i] = p]

\* deleteFile(filename) has thrown: deleteMultipleFiles pushes the failure and,
\* the list holding one name, returns the results
Failed(p) ==
    [p EXCEPT !.pc = "report",
              !.results = Append(@, [filename |-> p.selectedFiles[1], success |-> FALSE])]

\* deleteFile(filename) has returned true
Succeeded(p) ==
    [p EXCEPT !.pc = "report",
              !.results = Append(@, [filename |-> p.selectedFiles[1], success |-> TRUE])]

\* requireConfig(config); const files = await sftp.listFiles();
\* if (files.length === 0) return
race_listFiles(i) ==
    /\ procs[i].pc = "start"
    /\ LET value == IF remote.exists THEN Listing(RawList(remote.entries, FALSE))
                    ELSE <<>>
       IN IF ~isConfigured
          THEN Becomes(i, [procs[i] EXCEPT !.pc = "done", !.exited = TRUE, !.exitCode = 1])
          ELSE IF Len(value) = 0
          THEN Becomes(i, [procs[i] EXCEPT !.pc = "done", !.exited = TRUE, !.files = value])
          ELSE Becomes(i, [procs[i] EXCEPT !.pc = "select", !.files = value])
    /\ UNCHANGED remote
    /\ RaceFrame

\* const selectedFiles = await selectMultipleFiles(files.map(f => f.name));
\* the user ticks one item
race_select(i) ==
    /\ procs[i].pc = "select"
    /\ \E n \in NamesOf(procs[i].files) :
          Becomes(i, [procs[i] EXCEPT !.pc = "confirm", !.selectedFiles = <<n>>])
    /\ UNCHANGED remote
    /\ RaceFrame

\* const confirmed = await confirm(message); if (!confirmed) return;
\* then sftp.deleteMultipleFiles(selectedFiles) calls deleteFile for the name
race_confirm(i) ==
    /\ procs[i].pc = "confirm"
    /\ \E confirmed \in BOOLEAN :
          IF AfterDeleteConfirm(confirmed) = "delete"
          THEN Becomes(i, [procs[i] EXCEPT !.pc = "stat"])
          ELSE Becomes(i, [procs[i] EXCEPT !.pc = "done", !.exited = TRUE])
    /\ UNCHANGED remote
    /\ RaceFrame

\* deleteFile: const stat = await sftp.stat(remotePath); if (stat.isDirectory) ...
race_stat(i) ==
    /\ procs[i].pc = "stat"
    /\ LET name == procs[i].selectedFiles[1] IN
       IF name \in DOMAIN remote.entries
       THEN Becomes(i, [procs[i] EXCEPT
                          !.pc = IF remote.entries[name].kind = "d" THEN "rmdir"
                                 ELSE "delete"])
       ELSE Becomes(i, Failed(procs[i]))
    /\ UNCHANGED remote
    /\ RaceFrame

\* await sftp.delete(remotePath)
race_delete(i) ==
    /\ procs[i].pc = "delete"
    /\ LET name == procs[i].selectedFiles[1] IN
       IF name \in DOMAIN remote.entries
       THEN /\ remote' = [remote EXCEPT !.entries = MapDel(@, name)]
            /\ Becomes(i, Succeeded(procs[i]))
       ELSE /\ UNCHANGED remote
            /\ Becomes(i, Failed(procs[i]))
    /\ RaceFrame

\* await sftp.rmdir(remotePath, true), first part: the directory is listed
\* and one unlink request is sent for each of its files
race_rmdirList(i) ==
    /\ procs[i].pc = "rmdir"
    /\ LET name == procs[i].selectedFiles[1] IN
       IF name \in DOMAIN remote.entries
       THEN Becomes(i, [procs[i] EXCEPT
                          !.pending = remote.entries[name].items,
                          !.pc = IF remote.entries[name].items = {} THEN "rmdirDir"
                                 ELSE "unlink"])
       ELSE Becomes(i, Failed(procs[i]))
    /\ UNCHANGED remote
    /\ RaceFrame

\* the server answers the unlink request for the file f; when the last answer
\* is in, rmdir goes on, or has thrown if an unlink failed
race_unlink(i, f) ==
    /\ procs[i].pc = "unlink"
    /\ f \in procs[i].pending
    /\ LET name    == procs[i].selectedFiles[1]
           there   == name \in DOMAIN remote.entries /\ f \in remote.entries[name].items
           pending == procs[i].pending \ {f}
           failed  == procs[i].unlinkFailed \/ ~there
           p       == [procs[i] EXCEPT !.pending = pending, !.unlinkFailed = failed]
       IN /\ remote' = IF there
                       THEN [remote EXCEPT !.entries[name].items = @ \ {f}]
                       ELSE remote
          /\ Becomes(i, IF pending # {} THEN p
                        ELSE IF failed THEN Failed(p)
                        ELSE [p EXCEPT !.pc = "rmdirDir"])
    /\ RaceFrame

\* await sftp.rmdir(remotePath, true), last part: the emptied directory is removed
race_rmdirDir(i) ==
    /\ procs[i].pc = "rmdirDir"
    /\ LET name == procs[i].selectedFiles[1] IN
       IF name \in DOMAIN remote.entries /\ remote.entries[name].items = {}
       THEN /\ remote' = [remote EXCEPT !.entries = MapDel(@, name)]
            /\ Becomes(i, Succeeded(procs[i]))
       ELSE /\ UNCHANGED remote
            /\ Becomes(i, Failed(procs[i]))
    /\ RaceFrame

\* the results are displayed and the command returns
race_report(i) ==
    /\ procs[i].pc = "report"
    /\ Becomes(i, [procs[i] EXCEPT !.pc = "done", !.exited = TRUE])
    /\ UNCHANGED remote
    /\ RaceFrame

RaceNext ==
    \/ \E i \in Invocations : race_listFiles(i)
    \/ \E i \in Invocations : race_select(i)
    \/ \E i \in Invocations : race_confirm(i)
    \/ \E i \in Invocations : race_stat(i)
    \/ \E i \in Invocations : race_delete(i)
    \/ \E i \in Invocations : race_rmdirList(i)
    \/ \E i \in Invocations, f \in FolderFiles : race_unlink(i, f)
    \/ \E i \in Invocations : race_rmdirDir(i)
    \/ \E i \in Invocations : race_report(i)

\* two delete commands are started against a directory holding a file and a folder
InitRace ==
    /\ CfgInit
    /\ shellEnv = <<>>
    /\ keyFiles = { <<"id_ed25519">> }
    /\ remote = RaceRemote
    /\ ProcessStart
    /\ procs = [i \in Invocations |-> NoProc]

SpecRace == InitRace /\ [][RaceNext]_vars

----------------------------------------------------------------------------
(* A command that follows setup (index.js)                                 *)
(*                                                                         *)
(* The setup process has ended and the tool is started again with `upload` *)
(* or `delete`: the new process has the environment of the shell, calls    *)
(* config.loadConfig() and enters the command, which checks the            *)
(* configuration.  What the command does after the check is not part of    *)
(* this specification.                                                     *)

FollowingCommands == {"upload", "delete"}

\* index.js of the next process: config.loadConfig(), then the command
followingCommand(c) ==
    /\ cmd = "setup"
    /\ exited
    /\ run < MaxRuns
    /\ run' = run + 1
    /\ env' = IF file.exists THEN Populate(shellEnv, DotenvParse(file.content))
              ELSE SeedDefaults(shellEnv)
    /\ loaded' = TRUE
    /\ last' = [op |-> "load", key |-> "", val |-> <<>>, envB |-> shellEnv,
                fileB |-> file, loadedB |-> FALSE]
    /\ cmd' = c
    /\ cmdPc' = "requireConfig"
    /\ exited' = FALSE
    /\ exitCode' = 0
    /\ sessions' = 0
    /\ op' = "none"
    /\ opPc' = "none"
    /\ opArg' = ""
    /\ opErr' = "none"
    /\ opRet' = NoRet
    /\ batch' = NoBatch
    /\ connects' = 0
    /\ callLog' = <<>>
    /\ atStart' = [remote |-> remote, env |-> env', file |-> file]
    /\ cancelled' = "none"
    /\ item' = NoItem
    /\ opCall' = NoCall
    /\ sshConfig' = NoSshConfig
    /\ steps' = <<>>
    /\ thrown' = <<>>
    /\ reports' = <<>>
    /\ remoteAtThrow' = remote
    /\ raised' = <<>>
    /\ files' = <<>>
    /\ selectedFiles' = <<>>
    /\ action' = "none"
    /\ lastInput' = NoInput
    /\ progress' = NoProgress
    /\ UNCHANGED <<file, shellEnv, saves, stops, saved, wr, keyFiles, remote, procs>>

FollowNext ==
    \/ setupCommand
    \/ setupCommand_selectAction
    \/ setupCommand_textInput
    \/ setupCommand_confirmTest
    \/ createClient
    \/ testConnection_end
    \/ testServerConnection
    \/ \E c \in FollowingCommands : followingCommand(c)
    \/ requireConfig

\* ~/.ssh holds two keys, one of them with a '#' in its name; no settings
\* file has been written yet
InitFollow ==
    /\ CfgInit
    /\ keyFiles = { <<"id_rsa">>, <<"k", "#", "2">> }
    /\ remote = [exists |-> FALSE, entries |-> <<>>]
    /\ ProcessStart
    /\ procs = NoProcs

SpecFollow == InitFollow /\ [][FollowNext]_vars
----------------------------------------------------------------------------
(* Claims about the configuration store, checked under SpecConfig *)

\* a key saved in this process and not saved again since
SavedThisRun(k) == k \in DOMAIN saved /\ saved[k].run = run

\* C1 (as stated): after saveConfig(k, v), getConfig(k) in the same run
\* returns exactly v, for every string v.
C1_SaveThenGetAnyValue ==
    \A k \in Keys : SavedThisRun(k) => getConfig(k) = saved[k].val

\* C1 (amended): after saveConfig(k, v) with v not the empty string,
\* getConfig(k) in the same run returns exactly v; after saveConfig(k, "")
\* it returns the documented default of k.
C1_SaveThenGetNonEmpty ==
    \A k \in Keys :
        SavedThisRun(k) =>
            getConfig(k) = IF saved[k].val # <<>> THEN saved[k].val ELSE DEFAULTS[k]

C1_Witness ==
    /\ last.op = "save"
    /\ last.val # <<>>
    /\ GetFrom(last.envB, last.key) # last.val
    /\ getConfig(last.key) = last.val

\* C2: saveConfig(k, v) leaves every other key unchanged: getConfig(j) is the
\* same after the call as before it for every key j other than k, and every
\* key j other than k that the settings file held before the call is still in
\* the file with the same value.
C2_SaveLeavesOtherKeys ==
    last.op = "save" =>
        \A j \in Keys \ {last.key} :
            /\ getConfig(j) = GetFrom(last.envB, j)
            /\ j \in DOMAIN FileKeys(last.fileB) =>
                  /\ j \in DOMAIN FileKeys(file)
                  /\ FileKeys(file)[j] = FileKeys(last.fileB)[j]

C2_Witness ==
    /\ last.op = "save"
    /\ \E j \in Keys \ {last.key} :
          /\ j \in DOMAIN FileKeys(last.fileB)
          /\ FileKeys(last.fileB)[j] # <<>>
          /\ FileKeys(file)[j] = FileKeys(last.fileB)[j]

\* C3 (as stated): with no settings file, loadConfig() makes getConfig(k) the
\* documented default for every recognized key and creates no settings file;
\* a second loadConfig() changes nothing.
C3_LoadWithoutFileGivesDefaults ==
    (last.op = "load" /\ ~last.fileB.exists) =>
        /\ \A k \in Keys : getConfig(k) = DEFAULTS[k]
        /\ ~file.exists
        /\ last.loadedB => env = last.envB

\* C3 (amended): with no settings file, loadConfig() sets every recognized
\* key that the process environment does not already hold with a non-empty
\* value to its documented default, and keeps the value of a key that the
\* environment does hold; it creates no settings file; a second loadConfig()
\* changes nothing.
C3_LoadWithoutFileSeedsUnsetKeys ==
    (last.op = "load" /\ ~last.fileB.exists) =>
        /\ \A k \in Keys :
              /\ k \in DOMAIN env
              /\ env[k] = IF k \in DOMAIN last.envB /\ last.envB[k] # <<>>
                          THEN last.envB[k] ELSE DEFAULTS[k]
              /\ getConfig(k) = env[k]
        /\ ~file.exists
        /\ last.loadedB => env = last.envB

C3_Witness ==
    /\ last.op = "load"
    /\ ~last.fileB.exists
    /\ last.loadedB
    /\ ~file.exists
    /\ getConfig("SERVER_PORT") = <<"2", "2", "2", "2">>
    /\ getConfig("SERVER_HOST") = DEFAULTS["SERVER_HOST"]

\* C4: a value v saved with saveConfig(k, v) in one run is the value that
\* getConfig(k) returns after loadConfig() in any later run, until k is saved
\* again.  Stated for the plainest case: v is not empty, no process was
\* stopped inside saveConfig, and the shell does not set k.
C4_SavedValuePersists ==
    \A k \in Keys :
        (/\ loaded
         /\ k \in DOMAIN saved
         /\ saved[k].run < run
         /\ saved[k].val # <<>>
         /\ stops = 0
         /\ k \notin DOMAIN shellEnv) =>
            getConfig(k) = saved[k].val

\* C5: at every moment, also when the process stops inside saveConfig, the
\* settings file is the complete content from before the call or the complete
\* content after it.  Stated for a call that found a settings file.
C5_FileIsBeforeOrAfter ==
    wr.before.exists => (file = wr.before \/ file = wr.after)

\* C6: in every state reachable by loadConfig and saveConfig calls,
\* getConfig(k) is defined and not empty for each of the five recognized keys.
C6_GetConfigNeverEmpty ==
    \A k \in Keys : getConfig(k) \in Seq(STRING) /\ getConfig(k) # <<>>

C6_Witness ==
    \E k \in Keys :
        /\ k \in DOMAIN env
        /\ env[k] = <<>>
        /\ SavedThisRun(k)
        /\ getConfig(k) = DEFAULTS[k]

----------------------------------------------------------------------------
(* Claims about the transfer client and the upload command, checked under  *)
(* SpecSftp                                                                *)

\* C7: when a transfer-client operation finishes, by returning or by raising
\* an error at any step, the session it opened has been closed.
C7_NoSessionAfterOperation ==
    opPc = "done" => sessions = 0

C7_Witness ==
    /\ opPc = "done"
    /\ op \in {"uploadFile", "uploadFolder", "listFiles", "deleteFile"}
    /\ opErr \in {"EMKDIR", "EPUT", "EUPLOADDIR", "EEXISTS", "ELIST", "ESTAT",
                  "ENOENT_REMOTE", "ERMDIR", "EDELETE"}
    /\ connects > 0
    /\ sessions = 0

\* C8: at most one remote session is open at any time, and in a batch delete
\* the session of one item is closed before the session of the next item is
\* opened.
C8_AtMostOneSession ==
    /\ sessions \in {0, 1}
    /\ opPc = "createClient" => sessions = 0

C8_Witness ==
    /\ batch.active
    /\ Len(callLog) = 1
    /\ callLog[1].ok
    /\ op = "deleteFile"
    /\ opPc \in {"stat", "rmdir", "delete"}
    /\ sessions = 1

\* C9: deleteMultipleFiles returns one result per submitted name, in the order
\* submitted; an item's result is a success exactly when its own deleteFile
\* call succeeded (and then the item was removed), and every item is
\* attempted whatever the outcome of the items before it.
C9_BatchResults ==
    (op = "deleteMultipleFiles" /\ opPc = "done") =>
        /\ opErr = "none"
        /\ opRet.tag = "results"
        /\ Len(batch.results) = Len(batch.names)
        /\ Len(callLog) = Len(batch.names)
        /\ \A i \in 1..Len(batch.names) :
              /\ batch.results[i].filename = batch.names[i]
              /\ callLog[i].name = batch.names[i]
              /\ batch.results[i].success = callLog[i].ok
              /\ batch.results[i].success => callLog[i].removed

C9_Witness ==
    /\ op = "deleteMultipleFiles"
    /\ opPc = "done"
    /\ batch.names = <<"a.txt", "b.txt", "docs">>
    /\ batch.results[1].success
    /\ ~batch.results[2].success
    /\ batch.results[2].error = "ENOENT_REMOTE"
    /\ batch.results[3].success

\* C10: in the upload command, if the selection yields no item or the user
\* declines the confirmation, no connection is attempted, nothing is changed
\* on the remote host or in the configuration, and the process ends with exit
\* status 0.
C10_CancelledUploadHasNoEffect ==
    (cmd = "upload" /\ cancelled # "none") =>
        /\ exited
        /\ exitCode = 0
        /\ connects = 0
        /\ sessions = 0
        /\ remote = atStart.remote
        /\ env = atStart.env
        /\ file = atStart.file

C10_Witness ==
    /\ cmd = "upload"
    /\ cancelled = "confirm"
    /\ item \in LocalItems
    /\ exited
    /\ exitCode = 0
    /\ connects = 0


----------------------------------------------------------------------------
(* Claims about the commands and the transfer client, checked under SpecSftp *)

\* the steps of api/sftp.js among the steps taken so far
RECURSIVE ApiSteps(_)
ApiSteps(s) ==
    IF s = <<>> THEN <<>>
    ELSE (IF Head(s).step \in PromptSteps \cup {"requireConfig"} THEN <<>> ELSE <<Head(s)>>)
         \o ApiSteps(Tail(s))

\* no deleteFile call was made, and no deletion was handed to the transfer client
NoDeletionAttempted ==
    /\ batch = NoBatch
    /\ callLog = <<>>
    /\ \A i \in DOMAIN steps : steps[i].step \notin {"stat", "rmdir", "delete"}

\* C11: in the delete command, if the user selects nothing (the answer is
\* refused and the prompt stays open) or declines the confirmation, no
\* deletion is attempted and the remote directory is as it was before the
\* command.
C11_CancelledDeleteHasNoEffect ==
    (/\ cmd = "delete"
     /\ \/ cancelled # "none"
        \/ cmdPc = "select" /\ lastInput.asked /\ ~lastInput.accepted) =>
        /\ NoDeletionAttempted
        /\ remote = atStart.remote

C11_Witness ==
    /\ cmd = "delete"
    /\ cancelled = "confirm"
    /\ selectedFiles = <<"a.txt", "docs">>
    /\ exited
    /\ exitCode = 0
    /\ remote = atStart.remote
    /\ DOMAIN remote.entries = {"a.txt", "docs"}

\* the checks that ended the process before the command did anything
ConfigCheckFailed ==
    \E i \in DOMAIN steps : steps[i] = [step |-> "requireConfig", ok |-> FALSE]

ReportedInFull(e) ==
    \E j \in DOMAIN reports : reports[j] = [err |-> e, detail |-> "full"]

\* the errors of the connection and of the remote file system
RemoteErrors ==
    {"ECONNREFUSED", "EEND", "EMKDIR", "EPUT", "EUPLOADDIR", "EEXISTS", "ELIST",
     "ESTAT", "ENOENT_REMOTE", "ERMDIR", "EDELETE"}

C13_ErrorsReportedInFull ==
    cmd # "none" =>
        \A i \in DOMAIN reports :
            reports[i].err \in RemoteErrors => reports[i].detail = "full"

IsConnect(s) == s.step = "connect"

\* C14 (as stated): in any command, every attempt to open a remote session
\* comes after a requireConfig that found the key file; with the key file
\* missing, upload and delete end with status 1 before any prompt or
\* connection attempt.
C14_ConnectAfterRequireConfig ==
    cmd # "none" =>
        /\ \A i \in DOMAIN steps :
              IsConnect(steps[i]) =>
                  \E j \in 1..(i - 1) : steps[j] = [step |-> "requireConfig", ok |-> TRUE]
        /\ (cmd \in {"upload", "delete"} /\ cmdPc # "requireConfig"
              /\ getSSHKeyPath \notin keyFiles) =>
                  /\ exited
                  /\ exitCode = 1
                  /\ steps = << [step |-> "requireConfig", ok |-> FALSE] >>

\* C14 (amended): in the upload and delete commands every attempt to open a
\* remote session comes after a requireConfig that found the key file, and
\* with the key file missing these commands end with status 1 before any
\* prompt or connection attempt.  The setup command makes no configuration
\* check: its connection test attempts to open a session whenever the key
\* file can be read.
C14_ConnectAfterRequireConfigExceptSetup ==
    /\ cmd \in {"upload", "delete"} =>
          /\ \A i \in DOMAIN steps :
                IsConnect(steps[i]) =>
                    \E j \in 1..(i - 1) : steps[j] = [step |-> "requireConfig", ok |-> TRUE]
          /\ (cmdPc # "requireConfig" /\ getSSHKeyPath \notin keyFiles) =>
                /\ exited
                /\ exitCode = 1
                /\ steps = << [step |-> "requireConfig", ok |-> FALSE] >>
                /\ connects = 0
    /\ cmd = "setup" =>
          /\ \A i \in DOMAIN steps : steps[i].step # "requireConfig"
          /\ connects > 0 => sshConfig.privateKey \in keyFiles

C14_Witness ==
    /\ cmd = "delete"
    /\ Len(steps) >= 2
    /\ steps[1] = [step |-> "requireConfig", ok |-> TRUE]
    /\ steps[2] = [step |-> "connect", ok |-> TRUE]
    /\ sessions = 1

\* the input is a decimal numeral of an integer from 1 to 65535
DenotesPort(text) ==
    /\ text # <<>>
    /\ \A i \in DOMAIN text : IsDigit(text[i])
    /\ DecimalValue(text) >= 1
    /\ DecimalValue(text) <= 65535

\* C15: the port prompt of setup accepts an input exactly when the input
\* denotes an integer from 1 to 65535.
C15_PortAcceptedIffInteger ==
    (cmd = "setup" /\ action = "server_port" /\ lastInput.asked) =>
        (lastInput.accepted <=> DenotesPort(lastInput.text))


\* every call the operation made to the SFTP library went through
AllStepsOk == \A i \in DOMAIN steps : steps[i].ok

\* C16: when the connection works and the configured remote directory does
\* not exist, listFiles returns an empty list and raises no error: it never
\* asks for a listing of the missing directory, so the only errors it can
\* raise are those of the connection itself.
C16_ListFilesOfMissingDirectory ==
    (op = "listFiles" /\ ~remote.exists) =>
        /\ \A i \in DOMAIN steps : steps[i].step # "list"
        /\ opErr \in {"none", "ENOENT", "ECONNREFUSED", "EEXISTS", "EEND"}
        /\ (opPc = "done" /\ AllStepsOk) =>
              /\ opErr = "none"
              /\ opRet = [tag |-> "list", value |-> <<>>]

C16_Witness ==
    /\ cmd = "none"
    /\ op = "listFiles"
    /\ opPc = "done"
    /\ ~remote.exists
    /\ connects = 1
    /\ opErr = "none"
    /\ opRet = [tag |-> "list", value |-> <<>>]
    /\ sessions = 0

\* the last component of a path: its last token that is not a separator
RECURSIVE LastComponent(_)
LastComponent(p) ==
    IF p = <<>> THEN ""
    ELSE IF p[Len(p)] # "/" THEN p[Len(p)]
    ELSE LastComponent(SubSeq(p, 1, Len(p) - 1))

UrlOf(name) == <<"https://fileshare.ct-42210.com", "/", name>>

\* C17 (as stated): a successful uploadFile or uploadFolder returns as remote
\* name the last component of the local path, and as public URL the public
\* base URL, '/', and that name.
C17_UploadNameIsLastComponent ==
    (op \in {"uploadFile", "uploadFolder"} /\ opRet.tag = "upload") =>
        /\ opRet.filename = LastComponent(opCall.localPath)
        /\ opRet.url = UrlOf(LastComponent(opCall.localPath))

\* C17 (amended): a successful uploadFile or uploadFolder that was given no
\* remote name (as in every call the upload command makes) returns as remote
\* name the last component of the local path; one that was given a remote
\* name returns that name; the public URL is the public base URL, '/', and
\* the returned name.
C17_UploadNameIsRemoteNameOrLastComponent ==
    (op \in {"uploadFile", "uploadFolder"} /\ opRet.tag = "upload") =>
        /\ opRet.filename = IF opCall.remoteName = ""
                            THEN LastComponent(opCall.localPath)
                            ELSE opCall.remoteName
        /\ opRet.url = UrlOf(opRet.filename)
        /\ opRet.filename \in DOMAIN remote.entries

C17_Witness ==
    /\ op = "uploadFile"
    /\ opPc = "done"
    /\ opErr = "none"
    /\ opCall = [localPath |-> <<"/", "work", "/", "a.txt">>, remoteName |-> ""]
    /\ opRet.tag = "upload"
    /\ opRet.filename = "a.txt"
    /\ opRet.url = <<"https://fileshare.ct-42210.com", "/", "a.txt">>

\* a single deleteFile call made by a caller of api/sftp.js
SingleDelete == cmd = "none" /\ op = "deleteFile" /\ batch = NoBatch

\* C18: deleteFile(name) raises an error and changes nothing on the remote
\* host when the remote path does not exist; when the path exists, a
\* successful call removes it (a directory with all its contents) and leaves
\* every other entry of the remote directory unchanged.
C18_DeleteFileEffect ==
    SingleDelete =>
        LET before == atStart.remote IN
        /\ opArg \notin DOMAIN before.entries =>
              /\ remote = before
              /\ opPc = "done" => opErr # "none"
        /\ (opArg \in DOMAIN before.entries /\ opPc = "done" /\ opErr = "none") =>
              /\ remote.exists = before.exists
              /\ DOMAIN remote.entries = (DOMAIN before.entries) \ {opArg}
              /\ \A n \in DOMAIN remote.entries : remote.entries[n] = before.entries[n]

C18_Witness ==
    /\ SingleDelete
    /\ opArg = "docs"
    /\ opPc = "done"
    /\ opErr = "none"
    /\ atStart.remote.entries["docs"] = DirEntry({"x"})
    /\ DOMAIN remote.entries = {"a.txt"}

UploadDirFailed ==
    \E i \in DOMAIN steps : steps[i] = [step |-> "uploadDir", ok |-> FALSE]

\* C19: when uploadFolder fails partway, the error reaches the caller, no
\* result is returned, and the files already transferred stay on the remote
\* host; the upload command then ends with status 1.
C19_FailedFolderUploadKeepsFiles ==
    (op = "uploadFolder" /\ opPc = "done" /\ UploadDirFailed) =>
        /\ opErr # "none"
        /\ opRet = NoRet
        /\ remote = remoteAtThrow
        /\ (cmd = "upload" /\ exited) => exitCode = 1

C19_Witness ==
    /\ op = "uploadFolder"
    /\ opPc = "done"
    /\ UploadDirFailed
    /\ opErr = "EUPLOADDIR"
    /\ atStart.remote.entries = <<>>
    /\ remote.entries = [n \in {"docs"} |-> DirEntry({"x"})]

\* C20: uploadFile opens the session, ensures the remote directory exists,
\* transfers the file and closes the session, in this order; the transfer
\* never starts unless the directory step succeeded.
C20_UploadFileStepOrder ==
    op = "uploadFile" =>
        LET s == ApiSteps(steps)
            Done(i, name) == i <= Len(s) /\ s[i] = [step |-> name, ok |-> TRUE]
        IN /\ \A i \in DOMAIN s :
                 /\ s[i].step = "mkdir" => i = 2 /\ Done(1, "connect")
                 /\ s[i].step = "fastPut" =>
                       i = 3 /\ Done(1, "connect") /\ Done(2, "mkdir")
                 /\ s[i].step = "end" => i = Len(s) /\ i > 1 /\ Done(1, "connect")
           /\ (opPc = "done" /\ opErr = "none") =>
                 /\ Len(s) = 4
                 /\ Done(1, "connect") /\ Done(2, "mkdir")
                 /\ Done(3, "fastPut") /\ Done(4, "end")

C20_Witness ==
    /\ op = "uploadFile"
    /\ opPc = "done"
    /\ opErr = "none"
    /\ Len(ApiSteps(steps)) = 4
    /\ ApiSteps(steps)[3] = [step |-> "fastPut", ok |-> TRUE]
    /\ sessions = 0


----------------------------------------------------------------------------
(* Claims about error propagation, the prompts of setup and delete, the    *)
(* progress display, concurrent deletions and the effect of an upload      *)

(* C21: an error raised by the connection attempt or by a remote operation  *)
(* reaches the command orchestrator as that same error, also when closing   *)
(* the session in the cleanup block fails as well: every connection or      *)
(* remote error a command catches is the first error that the awaited calls *)
(* of the transfer client raised.                                           *)
C21_RaisedErrorReachesOrchestrator ==
    \A i \in DOMAIN thrown :
        thrown[i].err \in RemoteErrors =>
            /\ raised # <<>>
            /\ thrown[i].err = raised[1]

\* the input is a decimal numeral of an integer, with or without a minus sign
IsNumeral(text) ==
    LET body == IF text # <<>> /\ Head(text) = "-" THEN Tail(text) ELSE text
    IN body # <<>> /\ \A i \in DOMAIN body : IsDigit(body[i])

NumeralValue(text) ==
    IF Head(text) = "-" THEN 0 - DecimalValue(Tail(text)) ELSE DecimalValue(text)

\* the inputs the prompts of setup are to refuse: empty text, a port outside
\* 1..65535, a directory path not starting with '/', a key name without a file
MustBeRefused(a, text) ==
    \/ text = <<>>
    \/ a = "server_port" /\ IsNumeral(text) /\ NumeralValue(text) \notin 1..65535
    \/ a = "server_dir" /\ Head(text) # "/"
    \/ a = "ssh_key" /\ text \notin keyFiles

(* C22: in setup, an input that the validator rejects (empty text, a port   *)
(* outside 1..65535, a directory path not starting with '/', a key name     *)
(* whose file does not exist) is never saved: the step in which it is typed *)
(* leaves the configuration and the settings file unchanged, the prompt     *)
(* stays open and the process goes on.                                      *)
C22_RejectedInputIsNotSaved ==
    [][ (/\ cmd = "setup"
         /\ cmdPc = "input"
         /\ lastInput'.asked
         /\ MustBeRefused(action, lastInput'.text))
        => (/\ ~lastInput'.accepted
            /\ env' = env
            /\ file' = file
            /\ saves' = saves
            /\ cmdPc' = "input"
            /\ exited' = FALSE) ]_vars

C22_Witness ==
    /\ cmd = "setup"
    /\ cmdPc = "input"
    /\ action = "server_port"
    /\ lastInput = [text |-> <<"7", "0", "0", "0", "0">>, accepted |-> FALSE, asked |-> TRUE]
    /\ env = atStart.env
    /\ file = atStart.file
    /\ ~exited

(* C23: during a file upload the progress bar is redrawn only when the      *)
(* whole-number percentage complete is at least 5 points above the          *)
(* percentage at the previous redraw (0 before the first one), or when the  *)
(* bytes transferred equal the total.                                       *)
C23_RedrawOnlyAfterFivePoints ==
    progress.drawn =>
        \/ progress.shown >= progress.prev + 5
        \/ progress.shownAt = FileSize

\* the bar was redrawn a second time before the end of the transfer, and a
\* later chunk was reported without a redraw
C23_Witness ==
    /\ cmd = "upload"
    /\ progress.drawn
    /\ progress.prev > 0
    /\ progress.shown >= progress.prev + 5
    /\ progress.shownAt < progress.current
    /\ progress.current < FileSize
    /\ progress.skipped

\* the delete command has called deleteMultipleFiles
DeleteSubmitted ==
    cmd = "delete" /\ (cmdPc = "deleting" \/ op = "deleteMultipleFiles")

(* C24: the delete command never calls deleteMultipleFiles with an empty    *)
(* list, and every name it submits for deletion was in the listing obtained *)
(* at the start of the same command.                                        *)
C24_DeleteSubmitsListedNames ==
    /\ DeleteSubmitted =>
          /\ batch.names # <<>>
          /\ \A i \in DOMAIN batch.names : batch.names[i] \in NamesOf(files)
    /\ cmd = "delete" =>
          \A i \in DOMAIN callLog : callLog[i].name \in NamesOf(files)

C24_Witness ==
    /\ DeleteSubmitted
    /\ Len(batch.names) = 2
    /\ Len(callLog) = 2
    /\ exited

\* listFiles has returned the listing of the remote directory
ListFilesReturned ==
    /\ op = "listFiles"
    /\ opPc = "done"
    /\ opErr = "none"
    /\ remote.exists

(* C25: when the remote directory exists, listFiles returns exactly one     *)
(* entry for each remote entry other than '.' and '..', and the kind of     *)
(* each returned entry is 'directory' exactly when the remote entry is a    *)
(* directory and 'file' otherwise.                                          *)
C25_ListFilesEntries ==
    ListFilesReturned =>
        LET value == opRet.value IN
        /\ opRet.tag = "list"
        /\ \A n \in DOMAIN remote.entries :
              Cardinality({ i \in DOMAIN value : value[i].name = n }) = 1
        /\ \A i \in DOMAIN value :
              /\ value[i].name \in DOMAIN remote.entries
              /\ value[i].type =
                    IF remote.entries[value[i].name].kind = "d" THEN "directory"
                    ELSE "file"

\* a directory and a file were listed
C25_Witness ==
    /\ ListFilesReturned
    /\ Len(opRet.value) = 2
    /\ \E i, j \in DOMAIN opRet.value :
          opRet.value[i].type = "directory" /\ opRet.value[j].type = "file"

\* both processes have selected the item, confirmed, and ended
BothDeleted(n) ==
    \A i \in Invocations :
        /\ procs[i].exited
        /\ procs[i].selectedFiles = <<n>>
        /\ procs[i].results # <<>>

TestAfterChange ==
    /\ cmd = "setup"
    /\ action \in {"ssh_key", "server_host"}
    /\ op = "testConnection"

\* the value typed at the prompt is the configuration's value of the key and
\* the settings file's value of the key
HoldsTyped(key) ==
    /\ getConfig(key) = lastInput.text
    /\ key \in DOMAIN FileKeys(file)
    /\ FileKeys(file)[key] = lastInput.text

\* the connection test has failed and setup has ended
TestFailed ==
    /\ exited
    /\ thrown # <<>>
    /\ thrown[Len(thrown)].handler = "testServerConnection"

(* C27: in setup, the optional connection test that follows a change of key *)
(* name or host runs after the new value has been saved and connects with   *)
(* the new value; if that test fails, the new value stays in the            *)
(* configuration and in the settings file.                                  *)
C27_TestUsesSavedValue ==
    TestAfterChange =>
        /\ lastInput.accepted
        /\ action = "ssh_key" =>
              /\ HoldsTyped("SSH_KEY_NAME")
              /\ connects > 0 => sshConfig.privateKey = lastInput.text
        /\ action = "server_host" =>
              /\ HoldsTyped("SERVER_HOST")
              /\ connects > 0 => sshConfig.host = lastInput.text

\* the test after a change of host could not connect
C27_Witness ==
    /\ TestAfterChange
    /\ action = "server_host"
    /\ TestFailed
    /\ connects = 1
    /\ sshConfig.host = <<"h">>
    /\ HoldsTyped("SERVER_HOST")

\* an earlier setup process has saved a key name
KeySavedEarlier ==
    /\ "SSH_KEY_NAME" \in DOMAIN saved
    /\ saved["SSH_KEY_NAME"].run < run

(* C28: after the change-SSH-key action of setup has saved a key name,      *)
(* isConfigured() is true, so the configuration check of a following upload *)
(* or delete command passes as long as the key file is not removed.         *)
C28_FollowingCommandIsConfigured ==
    /\ (cmd = "setup" /\ "SSH_KEY_NAME" \in DOMAIN saved) => isConfigured
    /\ (cmd \in FollowingCommands /\ KeySavedEarlier) =>
          \A i \in DOMAIN steps : steps[i].step = "requireConfig" => steps[i].ok

\* uploadFile has returned its result
UploadFileSucceeded ==
    /\ op = "uploadFile"
    /\ opPc = "done"
    /\ opErr = "none"

(* C29: after a successful uploadFile, the remote directory contains an     *)
(* entry with the uploaded name (replacing any earlier entry of that name), *)
(* and every other entry of the remote directory is unchanged.              *)
C29_UploadFileEffect ==
    UploadFileSucceeded =>
        LET before == atStart.remote.entries IN
        /\ remote.exists
        /\ filename \in DOMAIN remote.entries
        /\ remote.entries[filename] = FileEntry
        /\ DOMAIN remote.entries = DOMAIN before \cup {filename}
        /\ \A n \in DOMAIN before : n # filename => remote.entries[n] = before[n]

\* a.txt was uploaded over the a.txt already there, next to the folder docs
C29_Witness ==
    /\ UploadFileSucceeded
    /\ filename = "a.txt"
    /\ DOMAIN atStart.remote.entries = {"a.txt", "docs"}
    /\ remote.entries["docs"] = DirEntry({"x"})

\* listFiles has handed the delete command an empty list, and the command
\* has gone on from there
EmptyListingHandled ==
    /\ cmd = "delete"
    /\ cmdPc # "listing"
    /\ op = "listFiles"
    /\ opPc = "done"
    /\ opErr = "none"
    /\ Len(opRet.value) = 0

(* C30: when listFiles returns an empty list, the delete command shows no   *)
(* selection or confirmation prompt, attempts no deletion, and ends with    *)
(* exit status 0.                                                           *)
C30_EmptyListingEndsDelete ==
    EmptyListingHandled =>
        /\ cmdPc = "done"
        /\ exited
        /\ exitCode = 0
        /\ \A i \in DOMAIN steps : steps[i].step \notin PromptSteps
        /\ ~lastInput.asked
        /\ NoDeletionAttempted
        /\ batch = NoBatch
        /\ remote = atStart.remote

\* the remote directory exists and is empty
C30_Witness ==
    /\ EmptyListingHandled
    /\ exited
    /\ remote.exists
    /\ Len(steps) = 5
====
